---- MODULE Spec2Model ----
(***************************************************************************)
(* Model of the cfui tunnel supervisor (service.Runner) of                 *)
(* src/service/runner.go: Start, Stop, the worker goroutine runTunnel with *)
(* its deferred exit handler, checkAutoRestart, the protocol selector and  *)
(* the error classifier.  Every mutex-protected critical section of the    *)
(* code is one atomic step; the steps between two critical sections are    *)
(* interleaved freely with the other goroutines.                           *)
(***************************************************************************)
EXTENDS Integers, Sequences, FiniteSets, TLC

(***************************************************************************)
(* Bounds of the model.                                                    *)
(***************************************************************************)
\* Stop() calls in flight at the same time (each in its own goroutine, see
\* handleControl); Start() calls are single steps and are not bounded
MaxWords == 3
PendingStarts == 2
RaceStarts == 3
MaxStops == 1
\* runTunnel goroutines that may be alive at the same time
MaxWorkers == 2
\* temporary config files that may exist on disk at the same time
MaxFiles == 2
\* time.Since(lastRestart) is observed in whole minutes, up to MaxElapsed
MaxElapsed == 6
\* Start() calls that spawn a worker, in one behaviour of Spec
MaxStarts == 2
\* Start() calls that spawn a worker, in one behaviour of SpecChain
ChainStarts == 6
\* Start() calls that spawn a worker, in one behaviour of SpecLimit
LimitStarts == 11
\* Start() calls that spawn a worker in a behaviour of SpecFallback
FallbackStarts == 7
\* Start() calls that spawn a worker in a behaviour of SpecMix
MixStarts == 3
\* Start() calls that spawn a worker in a behaviour of SpecExplicit
ExplicitStarts == 4
\* Start() calls that spawn a worker in a behaviour of SpecMutex
MutexStarts == 1
\* worker goroutines alive at once in a behaviour of SpecMutex
MutexWorkers == 1
\* saturation of the failure counter of an explicitly configured protocol
MaxFailures == 4
\* saturation of protocolSwitchCount
MaxSwitches == 2

\* capacity of the history ring: the bufferSize passed to NewLogBroadcaster
bufferSize == 2
\* capacity of a subscriber channel (subscriberBufferSize, scaled down)
subscriberBufferSize == 2
\* channels that Subscribe() creates in one behaviour
MaxSubscribers == 2
\* Broadcast() calls in one behaviour
MaxBroadcasts == 4

Callers == 1..MaxStops
Slots == 1..MaxWorkers
FileIds == 1..MaxFiles

Min(a, b) == IF a < b THEN a ELSE b

(***************************************************************************)
(* Errors.  An error message is a sequence of words; strings.Contains is   *)
(* the search of a contiguous sub-sequence and strings.ToLower maps the    *)
(* words that carry upper-case letters to their lower-case form.           *)
(***************************************************************************)
ToLowerWord(w) ==
    CASE w = "Unauthorized" -> "unauthorized"
      [] w = "QUIC"         -> "quic"
      [] w = "Timeout"      -> "timeout"
      [] w = "Invalid"      -> "invalid"
      [] w = "Forbidden"    -> "forbidden"
      [] OTHER              -> w

ToLower(msg) == [i \in 1..Len(msg) |-> ToLowerWord(msg[i])]

Contains(msg, pat) ==
    \E i \in 0..(Len(msg) - Len(pat)) :
        \A j \in 1..Len(pat) : msg[i + j] = pat[j]

NoError == [kind |-> "nil", msg |-> <<>>]
Err(m) == [kind |-> "error", msg |-> m]
PanicError == [kind |-> "panic", msg |-> <<"tunnel", "panic">>]

retryablePatterns ==
    { <<"connection", "refused">>, <<"connection", "reset">>, <<"timeout">>,
      <<"temporary", "failure">>, <<"network", "is", "unreachable">>,
      <<"no", "route", "to", "host">>, <<"broken", "pipe">>,
      <<"i/o", "timeout">> }

nonRetryablePatterns ==
    { <<"invalid", "token">>, <<"authentication", "failed">>,
      <<"unauthorized">>, <<"forbidden">>, <<"bad", "request">>,
      <<"invalid", "configuration">>, <<"missing", "required">> }

\* isRetryableError that looks for the non-retryable patterns first
isRetryableErrorDenyFirst(err) ==
    IF err.kind = "nil" THEN FALSE
    ELSE IF \E p \in nonRetryablePatterns : Contains(ToLower(err.msg), p) THEN FALSE
    ELSE TRUE

isRetryableError(err) ==
    IF err.kind = "nil" THEN FALSE
    ELSE IF \E p \in retryablePatterns : Contains(ToLower(err.msg), p) THEN TRUE
    ELSE IF \E p \in nonRetryablePatterns : Contains(ToLower(err.msg), p) THEN FALSE
    ELSE TRUE

quicErrors ==
    { <<"quic">>,
      <<"timeout", ":", "no", "recent", "network", "activity">>,
      <<"failed", "to", "dial", "to", "edge", "with", "quic">>,
      <<"failed", "to", "accept", "quic", "stream">> }

connectionErrors ==
    { <<"connection", "refused">>, <<"connection", "reset">>,
      <<"connection", "timeout">> }

isProtocolRelatedError(err) ==
    IF err.kind = "nil" THEN FALSE
    ELSE IF \E p \in quicErrors : Contains(ToLower(err.msg), p) THEN TRUE
    ELSE IF \E p \in connectionErrors : Contains(ToLower(err.msg), p) THEN TRUE
    ELSE FALSE

(***************************************************************************)
(* State of the supervisor, of the goroutines that call it and of its      *)
(* worker goroutines.                                                      *)
(***************************************************************************)
Tokens == {"", "tok"}
Protocols == {"auto", "quic", "http2"}

VARIABLES
    running,             \* Runner.running
    lastError,           \* Runner.lastError
    restartCount,        \* Runner.restartCount
    lastRestart,         \* Runner.lastRestart: "zero" or "set" (a time.Now())
    configFile,          \* Runner.configFile: 0 is "", else the file's id
    cancelOwner,         \* the worker whose context Runner.cancel cancels, 0 is nil
    wg,                  \* Runner.wg counter
    starts,              \* number of Start() calls that spawned a worker
    initOnceDone,        \* Runner.initOnce has run its function
    initCalls,           \* number of times tunnel.Init was entered
    currentProtocol,     \* Runner.currentProtocol
    protocolFailures,    \* Runner.protocolFailures
    protocolSwitchCount, \* Runner.protocolSwitchCount
    disk,                \* temporary config files present on disk
    cpc,                 \* position of each goroutine that is inside Stop()
    ret,                 \* the call returning right now: name, result, cfg.Token read,
                         \* and for Start how initTunnel ended
    stopTarget,          \* the worker whose context a pending Stop cancelled
    stopFile,            \* local configFile of cleanupConfigFile called by Stop
    wpc,                 \* position of each runTunnel goroutine
    ctxDone,             \* ctx.Err() != nil for the worker's context
    wcfg,                \* cfg.Protocol of the worker's cfg snapshot
    werr,                \* what app.RunContext returned (or the panic)
    wfile,               \* the file the worker's createTempConfig created
    wlocal,              \* local configFile of the worker's cleanupConfigFile
    wproto,              \* selectedProtocol of the worker
    wdelay,              \* delay of the worker's backoff sleep, seconds
    welapsed,            \* time.Since(lastRestart) the worker's checkAutoRestart saw
    wsignal              \* the tunnel call received the graceful shutdown signal

supervisorVars == <<running, lastError, restartCount, lastRestart, configFile,
                    cancelOwner, wg, starts, initOnceDone, initCalls>>
protocolVars == <<currentProtocol, protocolFailures, protocolSwitchCount>>
callerVars == <<cpc, ret, stopTarget, stopFile>>
workerVars == <<wpc, ctxDone, wcfg, werr, wfile, wlocal, wproto, wdelay, welapsed,
                wsignal>>
runnerVars == <<supervisorVars, protocolVars, disk, callerVars, workerVars>>

\* State of the log broadcaster (logger.LogBroadcaster) and of its channels.
VARIABLES
    subscribers,         \* keys of LogBroadcaster.subscribers
    lastActive,          \* subscriberInfo.lastActive is within subscriberTimeout
                         \* (FALSE for a channel that has no subscriberInfo)
    buffer,              \* values of the cells of the ring LogBroadcaster.buffer
    bufferPos,           \* the cell LogBroadcaster.buffer points to
    cleanupDone,         \* LogBroadcaster.cleanupDone: "open" or "closed"
    sweeper,             \* the goroutine cleanupInactiveSubscribers
    closePc,             \* position of the goroutine that is inside Close()
    chanState,           \* each subscriber channel: "none", "open" or "closed"
    chanQueue,           \* the lines buffered in each subscriber channel
    logPanic,            \* the broadcaster call that panicked, "none" if none did
    logged,              \* the lines passed to Broadcast so far, in order
    unsubscribed         \* the channels whose stream handler has returned, its
                         \* deferred Unsubscribe run

logVars == <<subscribers, lastActive, buffer, bufferPos, cleanupDone, sweeper,
             closePc, chanState, chanQueue, logPanic, logged, unsubscribed>>

(***************************************************************************)
(* Runner.mu and the goroutines of the supervisor at the grain of the      *)
(* mutex.                                                                  *)
(***************************************************************************)
VARIABLES
    mu,                  \* the goroutine that holds Runner.mu, or Free
    lpc                  \* where each goroutine is: "L" and the line of the
                         \* Lock() it waits at, "H" and that line while it
                         \* holds the mutex, or the place where it blocks

lockVars == <<mu, lpc>>

VARIABLES
    callErr,             \* the error a caller hands to isRetryableError
    callResult           \* <<>> before the call, then the one value returned

classifierVars == <<callErr, callResult>>

vars == <<runnerVars, logVars, lockVars, classifierVars>>

Free == <<"free", 0>>
Worker(s) == <<"worker", s>>
StopCaller == <<"Stop", 0>>
StatusCaller == <<"Status", 0>>
StartCaller == <<"Start", 0>>
MutexSlots == 1..MutexWorkers
Goroutines ==
    {Worker(s) : s \in MutexSlots} \cup {StopCaller, StatusCaller, StartCaller}

(***************************************************************************)
(* Values of the log broadcaster: lines, ring cells, channels.             *)
(***************************************************************************)
Lines == {"", "X", "Y"}
\* the nil interface value of a ring cell never written
Nil == "<nil>"
Cells == 0..(bufferSize - 1)
ChanIds == 1..MaxSubscribers

(***************************************************************************)
(* NewRunner and NewLogBroadcaster.                                        *)
(***************************************************************************)
NoRet == <<"none", "none", "">>

Constructed ==
    /\ running = FALSE
    /\ lastError = NoError
    /\ restartCount = 0
    /\ lastRestart = "zero"
    /\ configFile = 0
    /\ cancelOwner = 0
    /\ wg = 0
    /\ starts = 0
    /\ initOnceDone = FALSE
    /\ initCalls = 0
    /\ currentProtocol = "auto"
    /\ protocolFailures = [p \in Protocols |-> 0]
    /\ protocolSwitchCount = 0
    /\ disk = {}
    /\ cpc = [c \in Callers |-> "idle"]
    /\ ret = NoRet
    /\ stopTarget = [c \in Callers |-> 0]
    /\ stopFile = [c \in Callers |-> 0]
    /\ wpc = [s \in Slots |-> "free"]
    /\ ctxDone = [s \in Slots |-> FALSE]
    /\ wcfg = [s \in Slots |-> ""]
    /\ werr = [s \in Slots |-> NoError]
    /\ wfile = [s \in Slots |-> 0]
    /\ wlocal = [s \in Slots |-> 0]
    /\ wproto = [s \in Slots |-> ""]
    /\ wdelay = [s \in Slots |-> 0]
    /\ welapsed = [s \in Slots |-> 0]
    /\ wsignal = [s \in Slots |-> FALSE]
    /\ subscribers = {}
    /\ lastActive = [c \in ChanIds |-> FALSE]
    /\ buffer = [i \in Cells |-> Nil]
    /\ bufferPos = 0
    /\ cleanupDone = "open"
    /\ sweeper = "running"
    /\ closePc = "idle"
    /\ chanState = [c \in ChanIds |-> "none"]
    /\ chanQueue = [c \in ChanIds |-> <<>>]
    /\ logPanic = "none"
    /\ logged = <<>>
    /\ unsubscribed = {}
    /\ mu = Free
    /\ lpc = [g \in Goroutines |-> "idle"]

Init ==
    /\ Constructed
    /\ callErr = NoError
    /\ callResult = <<>>

\* no call is at its return statement
Ready == ret = NoRet

\* the caller takes the value the call returns
Return ==
    /\ ret # NoRet
    /\ UNCHANGED logVars
    /\ UNCHANGED <<lockVars, classifierVars>>
    /\ ret' = NoRet
    /\ UNCHANGED <<supervisorVars, protocolVars, disk, cpc, stopTarget, stopFile,
                   workerVars>>

(***************************************************************************)
(* Runner.Start.  The whole body runs with Runner.mu held.  The            *)
(* configuration is the external config.Manager, which any HTTP request    *)
(* may rewrite between two reads: what cfgMgr.Get() returns is an input.   *)
(***************************************************************************)
FreeSlots == {s \in Slots : wpc[s] = "free"}
NewSlot == CHOOSE s \in FreeSlots : \A t \in FreeSlots : s <= t

\* cancel(): the context of the worker Runner.cancel belongs to becomes done
Cancel(done) ==
    IF cancelOwner # 0 /\ wpc[cancelOwner] # "free"
    THEN [done EXCEPT ![cancelOwner] = TRUE]
    ELSE done

\* Start() without the check of running
StartOutcomeNoRunningCheck(token) ==
    IF token = "" THEN "token is required" ELSE "nil"

\* Start() without the check of the token
StartOutcomeNoTokenCheck(token) ==
    IF running THEN "already running" ELSE "nil"

\* lines 133-142; token is cfg.Token
StartOutcome(token) ==
    IF running THEN "already running"
    ELSE IF token = "" THEN "token is required"
    ELSE "nil"

\* an initialization that runs on every attempt
initTunnelEveryStart ==
    /\ initOnceDone' = TRUE
    /\ initCalls' = initCalls + 1

\* initTunnel: sync.Once around tunnel.Init, whose panic is recovered
initTunnel ==
    IF ~initOnceDone
    THEN /\ initOnceDone' = TRUE
         /\ initCalls' = initCalls + 1
    ELSE UNCHANGED <<initOnceDone, initCalls>>

\* what tunnel.Init does when it is entered
InitOutcomes == {"ok", "panic"}

\* lines 95-103: how a call of initTunnel ends: skipped by the Once, or
\* entered, where the deferred recover swallows a panic of tunnel.Init
initTunnelResult(outcome) ==
    IF initOnceDone THEN "skipped"
    ELSE IF outcome = "panic" THEN "recovered"
    ELSE "ok"

\* token is cfg.Token of line 138; wpcBase is wpc with the calling goroutine's
\* own move applied; budget bounds the workers a behaviour spawns
Start(token, wpcBase, budget) ==
    IF StartOutcome(token) = "nil"
    THEN /\ FreeSlots # {}
         /\ starts < budget
         /\ starts' = starts + 1
         /\ initTunnel
         /\ ctxDone' = [Cancel(ctxDone) EXCEPT ![NewSlot] = FALSE]
         /\ cancelOwner' = NewSlot
         /\ running' = TRUE
         /\ lastError' = NoError
         /\ wg' = wg + 1
         /\ wpc' = [wpcBase EXCEPT ![NewSlot] = "begin"]
    ELSE /\ wpc' = wpcBase
         /\ UNCHANGED <<initOnceDone, initCalls, ctxDone, cancelOwner, running,
                        lastError, wg, starts>>

CallStart(budget) ==
    /\ Ready
    /\ UNCHANGED logVars
    /\ UNCHANGED <<lockVars, classifierVars>>
    /\ \E token \in Tokens, outcome \in InitOutcomes :
          /\ Start(token, wpc, budget)
          /\ ret' = <<"Start", StartOutcome(token), token,
                      IF StartOutcome(token) = "nil"
                      THEN initTunnelResult(outcome) ELSE "none">>
    /\ UNCHANGED <<restartCount, lastRestart, configFile, protocolVars, disk,
                   cpc, stopTarget, stopFile, wcfg, werr, wfile, wlocal, wproto,
                   wdelay, welapsed, wsignal>>

(***************************************************************************)
(* Runner.Stop.                                                            *)
(***************************************************************************)
\* Stop() going on whatever running is
StopFindsRunningAlways == TRUE

\* line 176
StopFindsRunning == running

\* a Stop() that, finding the supervisor idle, calls off the pending restarts
StopIdleCancelsRestart ==
    /\ Ready
    /\ ~StopFindsRunning
    /\ ret' = <<"Stop", "nil", "">>
    /\ wpc' = [s \in Slots |-> IF wpc[s] = "sleep" THEN "wgdone" ELSE wpc[s]]
    /\ UNCHANGED <<supervisorVars, protocolVars, disk, cpc, stopTarget, stopFile,
                   ctxDone, wcfg, werr, wfile, wlocal, wproto, wdelay, welapsed,
                   wsignal, logVars, lockVars, classifierVars>>

\* lines 175-180: not running
StopIdle ==
    /\ Ready
    /\ UNCHANGED logVars
    /\ UNCHANGED <<lockVars, classifierVars>>
    /\ ~StopFindsRunning
    /\ ret' = <<"Stop", "nil", "">>
    /\ UNCHANGED <<supervisorVars, protocolVars, disk, cpc, stopTarget, stopFile,
                   workerVars>>

\* lines 175-196: cancel, non-blocking send on gracefulShutdownC, unlock.  The
\* send succeeds only when a tunnel call is receiving.
StopBegin(c) ==
    /\ Ready
    /\ UNCHANGED logVars
    /\ UNCHANGED <<lockVars, classifierVars>>
    /\ cpc[c] = "idle"
    /\ \A d \in Callers : cpc[d] = "idle" => c <= d
    /\ StopFindsRunning
    /\ ctxDone' = Cancel(ctxDone)
    /\ \/ UNCHANGED wsignal
       \/ \E s \in Slots : /\ wpc[s] = "tunnel"
                           /\ ~wsignal[s]
                           /\ wsignal' = [wsignal EXCEPT ![s] = TRUE]
    /\ stopTarget' = [stopTarget EXCEPT ![c] =
                         IF cancelOwner # 0 /\ wpc[cancelOwner] # "free"
                         THEN cancelOwner ELSE 0]
    /\ cpc' = [cpc EXCEPT ![c] = "stop_wait"]
    /\ UNCHANGED <<supervisorVars, protocolVars, disk, ret, stopFile, wpc,
                   wcfg, werr, wfile, wlocal, wproto, wdelay, welapsed>>

\* lines 199-207: wg.Wait() returned, done is closed and the select takes it
StopWaitDone(c) ==
    /\ Ready
    /\ UNCHANGED logVars
    /\ UNCHANGED <<lockVars, classifierVars>>
    /\ cpc[c] = "stop_wait"
    /\ wg = 0
    /\ cpc' = [cpc EXCEPT ![c] = "stop_graceful"]
    /\ UNCHANGED <<supervisorVars, protocolVars, disk, ret, stopTarget,
                   stopFile, workerVars>>

\* lines 209-213
StopGraceful(c) ==
    /\ Ready
    /\ UNCHANGED logVars
    /\ UNCHANGED <<lockVars, classifierVars>>
    /\ cpc[c] = "stop_graceful"
    /\ running' = FALSE
    /\ ret' = <<"Stop", "nil", "">>
    /\ stopTarget' = [stopTarget EXCEPT ![c] = 0]
    /\ cpc' = [cpc EXCEPT ![c] = "idle"]
    /\ UNCHANGED <<lastError, restartCount, lastRestart, configFile, cancelOwner,
                   wg, starts, initOnceDone, initCalls, protocolVars, disk,
                   stopFile, workerVars>>

\* a goroutine that takes time: it is inside the tunnel library call or inside
\* time.Sleep; every other step of a worker is immediate
Blocked(s) == wpc[s] \in {"free", "tunnel", "sleep"}

\* line 214: the 30s timer fires.  The wait group counter is not zero, and the
\* 30 seconds pass while the live workers are in the tunnel call or asleep.
StopTimeout(c) ==
    /\ Ready
    /\ UNCHANGED logVars
    /\ UNCHANGED <<lockVars, classifierVars>>
    /\ cpc[c] = "stop_wait"
    /\ wg > 0
    /\ \A s \in Slots : Blocked(s)
    /\ cpc' = [cpc EXCEPT ![c] = "stop_timeout"]
    /\ UNCHANGED <<supervisorVars, protocolVars, disk, ret, stopTarget,
                   stopFile, workerVars>>

\* lines 217-219
StopForceIdle(c) ==
    /\ Ready
    /\ UNCHANGED logVars
    /\ UNCHANGED <<lockVars, classifierVars>>
    /\ cpc[c] = "stop_timeout"
    /\ running' = FALSE
    /\ cpc' = [cpc EXCEPT ![c] = "stop_cleanup"]
    /\ UNCHANGED <<lastError, restartCount, lastRestart, configFile, cancelOwner,
                   wg, starts, initOnceDone, initCalls, protocolVars, disk, ret,
                   stopTarget, stopFile, workerVars>>

\* line 221, cleanupConfigFile lines 589-592
StopCleanupLock(c) ==
    /\ Ready
    /\ UNCHANGED logVars
    /\ UNCHANGED <<lockVars, classifierVars>>
    /\ cpc[c] = "stop_cleanup"
    /\ stopFile' = [stopFile EXCEPT ![c] = configFile]
    /\ configFile' = 0
    /\ cpc' = [cpc EXCEPT ![c] = "stop_remove"]
    /\ UNCHANGED <<running, lastError, restartCount, lastRestart, cancelOwner,
                   wg, starts, initOnceDone, initCalls, protocolVars, disk, ret,
                   stopTarget, workerVars>>

\* cleanupConfigFile lines 594-600, then line 222
StopRemove(c) ==
    /\ Ready
    /\ UNCHANGED logVars
    /\ UNCHANGED <<lockVars, classifierVars>>
    /\ cpc[c] = "stop_remove"
    /\ disk' = disk \ {stopFile[c]}
    /\ stopFile' = [stopFile EXCEPT ![c] = 0]
    /\ ret' = <<"Stop", "timeout", "">>
    /\ stopTarget' = [stopTarget EXCEPT ![c] = 0]
    /\ cpc' = [cpc EXCEPT ![c] = "idle"]
    /\ UNCHANGED <<supervisorVars, protocolVars, workerVars>>

(***************************************************************************)
(* Protocol selector.                                                      *)
(***************************************************************************)
maxFailuresBeforeSwitch == 3

\* a selector that falls back whatever the config says
selectProtocolAlwaysAuto(configProtocol) ==
    IF protocolFailures[currentProtocol] >= maxFailuresBeforeSwitch
    THEN LET nextProtocol == IF currentProtocol = "quic" \/ currentProtocol = "auto"
                             THEN "http2" ELSE "quic"
         IN <<nextProtocol, nextProtocol,
              [protocolFailures EXCEPT ![currentProtocol] = 0],
              protocolSwitchCount + 1>>
    ELSE IF configProtocol # "" /\ configProtocol # "auto"
    THEN <<configProtocol, configProtocol, protocolFailures, protocolSwitchCount>>
    ELSE LET cur == IF currentProtocol = "" \/ currentProtocol = "auto"
                    THEN "quic" ELSE currentProtocol
         IN <<cur, cur, protocolFailures, protocolSwitchCount>>

\* a selector that switches without resetting the counter of the protocol left
selectProtocolKeepsFailures(configProtocol) ==
    IF configProtocol # "" /\ configProtocol # "auto"
    THEN <<configProtocol, configProtocol, protocolFailures, protocolSwitchCount>>
    ELSE IF protocolFailures[currentProtocol] >= maxFailuresBeforeSwitch
    THEN LET nextProtocol == IF currentProtocol = "quic" \/ currentProtocol = "auto"
                             THEN "http2" ELSE "quic"
         IN <<nextProtocol, nextProtocol, protocolFailures,
              protocolSwitchCount + 1>>
    ELSE LET cur == IF currentProtocol = "" \/ currentProtocol = "auto"
                    THEN "quic" ELSE currentProtocol
         IN <<cur, cur, protocolFailures, protocolSwitchCount>>

\* selectProtocol returns <<protocol, currentProtocol, protocolFailures,
\* protocolSwitchCount>>: its result and the fields as it leaves them
selectProtocol(configProtocol) ==
    IF configProtocol # "" /\ configProtocol # "auto"
    THEN <<configProtocol, configProtocol, protocolFailures, protocolSwitchCount>>
    ELSE IF protocolFailures[currentProtocol] >= maxFailuresBeforeSwitch
    THEN LET nextProtocol == IF currentProtocol = "quic" \/ currentProtocol = "auto"
                             THEN "http2" ELSE "quic"
         IN <<nextProtocol, nextProtocol,
              [protocolFailures EXCEPT ![currentProtocol] = 0],
              protocolSwitchCount + 1>>
    ELSE LET cur == IF currentProtocol = "" \/ currentProtocol = "auto"
                    THEN "quic" ELSE currentProtocol
         IN <<cur, cur, protocolFailures, protocolSwitchCount>>

(***************************************************************************)
(* The worker goroutine runTunnel.  A step takes its inputs (the fields of *)
(* cfgMgr.Get(), what the tunnel library call does) from the set the       *)
(* specification hands it.                                                 *)
(***************************************************************************)
\* names os.CreateTemp can still hand out
FreshFiles ==
    FileIds \ (disk \cup {configFile} \cup {stopFile[c] : c \in Callers}
                    \cup {wlocal[s] : s \in Slots} \cup {wfile[s] : s \in Slots})

\* line 396 with cfg.CustomTag # "", and lines 423-435: createTempConfig under
\* the mutex; on an error it returns "".  protos is cfg.Protocol.
WCreateConfig(s, protos) ==
    /\ Ready
    /\ UNCHANGED logVars
    /\ UNCHANGED <<lockVars, classifierVars>>
    /\ wpc[s] = "begin"
    /\ \E proto \in protos : wcfg' = [wcfg EXCEPT ![s] = proto]
    /\ \/ /\ FreshFiles # {}
          /\ LET f == CHOOSE x \in FreshFiles : \A y \in FreshFiles : x <= y
             IN /\ disk' = disk \cup {f}
                /\ configFile' = f
                /\ wfile' = [wfile EXCEPT ![s] = f]
       \/ /\ configFile' = 0
          /\ UNCHANGED <<disk, wfile>>
    /\ wpc' = [wpc EXCEPT ![s] = "select"]
    /\ UNCHANGED <<running, lastError, restartCount, lastRestart, cancelOwner,
                   wg, starts, initOnceDone, initCalls, protocolVars, callerVars,
                   ctxDone, werr, wlocal, wproto, wdelay, welapsed, wsignal>>

\* lines 441-443, after line 396 with cfg.CustomTag = "" or after the creation
\* of the temporary config
WSelect(s, protos) ==
    /\ Ready
    /\ UNCHANGED logVars
    /\ UNCHANGED <<lockVars, classifierVars>>
    /\ \E proto \in protos :
          /\ \/ wpc[s] = "begin"
             \/ wpc[s] = "select" /\ proto = wcfg[s]
          /\ LET r == selectProtocol(proto)
             IN /\ r[4] <= MaxSwitches
                /\ wproto' = [wproto EXCEPT ![s] = r[1]]
                /\ currentProtocol' = r[2]
                /\ protocolFailures' = r[3]
                /\ protocolSwitchCount' = r[4]
    /\ wcfg' = [wcfg EXCEPT ![s] = ""]
    /\ wpc' = [wpc EXCEPT ![s] = "tunnel"]
    /\ UNCHANGED <<supervisorVars, disk, callerVars, ctxDone, werr, wfile, wlocal,
                   wdelay, welapsed, wsignal>>

\* a return of the tunnel call handled without the check of ctx.Err()
afterRunContextNoCancelCheck(s, e) ==
    IF e.kind = "panic" THEN "recover"
    ELSE IF e.kind # "nil" THEN "seterr"
    ELSE "success"

\* lines 507-515 and 529: where the worker goes when app.RunContext ended with
\* e: to the deferred handler's recover on a panic, straight to the deferred
\* handler's cleanup when ctx.Err() # nil, else to the error or success branch
afterRunContext(s, e) ==
    IF e.kind = "panic" THEN "recover"
    ELSE IF ctxDone[s] THEN "cleanup"
    ELSE IF e.kind # "nil" THEN "seterr"
    ELSE "success"

\* line 507: app.RunContext returns nil or an error, or panics; lines 510-515:
\* the check of ctx.Err() that follows a return
WTunnelReturn(s, outcomes) ==
    /\ Ready
    /\ UNCHANGED logVars
    /\ UNCHANGED <<lockVars, classifierVars>>
    /\ wpc[s] = "tunnel"
    /\ \E e \in outcomes :
          /\ werr' = [werr EXCEPT ![s] = e]
          /\ wpc' = [wpc EXCEPT ![s] = afterRunContext(s, e)]
    /\ wproto' = [wproto EXCEPT ![s] = ""]
    /\ wsignal' = [wsignal EXCEPT ![s] = FALSE]
    /\ UNCHANGED <<supervisorVars, protocolVars, disk, callerVars, ctxDone, wcfg,
                   wfile, wlocal, wdelay, welapsed>>

\* lines 517-519
WSetErr(s) ==
    /\ Ready
    /\ UNCHANGED logVars
    /\ UNCHANGED <<lockVars, classifierVars>>
    /\ wpc[s] = "seterr"
    /\ lastError' = werr[s]
    /\ wpc' = [wpc EXCEPT ![s] = "recfail"]
    /\ UNCHANGED <<running, restartCount, lastRestart, configFile, cancelOwner,
                   wg, starts, initOnceDone, initCalls, protocolVars, disk,
                   callerVars, ctxDone, wcfg, werr, wfile, wlocal, wproto,
                   wdelay, welapsed, wsignal>>

\* recordProtocolFailure that counts every error
recordProtocolFailureAnyError(err) ==
    LET cur == IF currentProtocol = "" \/ currentProtocol = "auto"
               THEN "quic" ELSE currentProtocol
    IN /\ currentProtocol' = cur
       /\ protocolFailures' = [protocolFailures EXCEPT ![cur] = @ + 1]

\* recordProtocolFailure, lines 319-333
recordProtocolFailure(err) ==
    LET cur == IF currentProtocol = "" \/ currentProtocol = "auto"
               THEN "quic" ELSE currentProtocol
    IN /\ currentProtocol' = cur
       /\ protocolFailures' =
             IF isProtocolRelatedError(err)
             THEN [protocolFailures EXCEPT ![cur] = @ + 1]
             ELSE protocolFailures

\* lines 522-528: both the non-retryable return and the fall-through end the
\* body and hand over to the deferred exit handler
WRecordFailure(s) ==
    /\ Ready
    /\ UNCHANGED logVars
    /\ UNCHANGED <<lockVars, classifierVars>>
    /\ wpc[s] = "recfail"
    /\ recordProtocolFailure(werr[s])
    /\ \A p \in Protocols : protocolFailures'[p] <= MaxFailures
    /\ wpc' = [wpc EXCEPT ![s] = "cleanup"]
    /\ UNCHANGED <<supervisorVars, protocolSwitchCount, disk, callerVars, ctxDone,
                   wcfg, werr, wfile, wlocal, wproto,
                   wdelay, welapsed, wsignal>>

\* recordProtocolSuccess that leaves restartCount alone
recordProtocolSuccessKeepsCount ==
    IF currentProtocol # "" /\ currentProtocol # "auto"
    THEN <<[p \in Protocols |-> 0], restartCount>>
    ELSE <<protocolFailures, restartCount>>

\* recordProtocolSuccess that resets the counter of the current protocol only
recordProtocolSuccessCurrentOnly ==
    IF currentProtocol # "" /\ currentProtocol # "auto"
    THEN <<[protocolFailures EXCEPT ![currentProtocol] = 0], 0>>
    ELSE <<protocolFailures, restartCount>>

\* recordProtocolSuccess, lines 295-316: <<protocolFailures, restartCount>> as
\* it leaves them
recordProtocolSuccess ==
    IF currentProtocol # "" /\ currentProtocol # "auto"
    THEN <<[p \in Protocols |-> 0], 0>>
    ELSE <<protocolFailures, restartCount>>

\* line 531
WRecordSuccess(s) ==
    /\ Ready
    /\ UNCHANGED logVars
    /\ UNCHANGED <<lockVars, classifierVars>>
    /\ wpc[s] = "success"
    /\ protocolFailures' = recordProtocolSuccess[1]
    /\ restartCount' = recordProtocolSuccess[2]
    /\ wpc' = [wpc EXCEPT ![s] = "cleanup"]
    /\ UNCHANGED <<running, lastError, lastRestart, configFile, cancelOwner, wg,
                   starts, initOnceDone, initCalls, currentProtocol,
                   protocolSwitchCount, disk, callerVars, ctxDone, wcfg, werr,
                   wfile, wlocal, wproto, wdelay, welapsed, wsignal>>

\* deferred handler, lines 376-381
WRecover(s) ==
    /\ Ready
    /\ UNCHANGED logVars
    /\ UNCHANGED <<lockVars, classifierVars>>
    /\ wpc[s] = "recover"
    /\ lastError' = PanicError
    /\ wpc' = [wpc EXCEPT ![s] = "cleanup"]
    /\ UNCHANGED <<running, restartCount, lastRestart, configFile, cancelOwner,
                   wg, starts, initOnceDone, initCalls, protocolVars, disk,
                   callerVars, ctxDone, wcfg, werr, wfile, wlocal, wproto,
                   wdelay, welapsed, wsignal>>

\* deferred handler, line 384: cleanupConfigFile lines 589-592
WCleanupLock(s) ==
    /\ Ready
    /\ UNCHANGED logVars
    /\ UNCHANGED <<lockVars, classifierVars>>
    /\ wpc[s] = "cleanup"
    /\ wlocal' = [wlocal EXCEPT ![s] = configFile]
    /\ configFile' = 0
    /\ wpc' = [wpc EXCEPT ![s] = IF configFile # 0 THEN "remove" ELSE "setidle"]
    /\ UNCHANGED <<running, lastError, restartCount, lastRestart, cancelOwner,
                   wg, starts, initOnceDone, initCalls, protocolVars, disk,
                   callerVars, ctxDone, wcfg, werr, wfile, wproto,
                   wdelay, welapsed, wsignal>>

\* cleanupConfigFile lines 594-600: os.Remove
WRemove(s) ==
    /\ Ready
    /\ UNCHANGED logVars
    /\ UNCHANGED <<lockVars, classifierVars>>
    /\ wpc[s] = "remove"
    /\ disk' = disk \ {wlocal[s]}
    /\ wlocal' = [wlocal EXCEPT ![s] = 0]
    /\ wpc' = [wpc EXCEPT ![s] = "setidle"]
    /\ UNCHANGED <<supervisorVars, protocolVars, callerVars, ctxDone, wcfg, werr,
                   wfile, wproto, wdelay, welapsed, wsignal>>

\* deferred handler, lines 386-388
WSetIdle(s) ==
    /\ Ready
    /\ UNCHANGED logVars
    /\ UNCHANGED <<lockVars, classifierVars>>
    /\ wpc[s] = "setidle"
    /\ running' = FALSE
    /\ wpc' = [wpc EXCEPT ![s] = "exitcheck"]
    /\ UNCHANGED <<lastError, restartCount, lastRestart, configFile, cancelOwner,
                   wg, starts, initOnceDone, initCalls, protocolVars, disk,
                   callerVars, ctxDone, wcfg, werr, wfile, wlocal, wproto,
                   wdelay, welapsed, wsignal>>

\* line 374: deferred r.wg.Done(), the goroutine ends
wgDone(s) ==
    /\ wg' = wg - 1
    /\ wpc' = [wpc EXCEPT ![s] = "free"]
    /\ ctxDone' = [ctxDone EXCEPT ![s] = FALSE]
    /\ werr' = [werr EXCEPT ![s] = NoError]
    /\ wfile' = [wfile EXCEPT ![s] = 0]
    /\ stopTarget' = [c \in Callers |-> IF stopTarget[c] = s THEN 0 ELSE stopTarget[c]]

\* an exit that goes on to the restart decision whatever cfg.AutoRestart is
WExitDoneIgnoresConfig(s, autos) ==
    /\ Ready
    /\ wpc[s] = "exitcheck"
    /\ IF ctxDone[s]
       THEN /\ wgDone(s)
            /\ UNCHANGED <<restartCount, lastRestart>>
       ELSE /\ wpc' = [wpc EXCEPT ![s] = "free"]
            /\ restartCount' = restartCount + 1
            /\ lastRestart' = "set"
            /\ UNCHANGED <<wg, ctxDone, werr, wfile, stopTarget>>
    /\ UNCHANGED <<running, lastError, configFile, cancelOwner, starts,
                   initOnceDone, initCalls, protocolVars, disk, cpc, ret,
                   stopFile, wcfg, wlocal, wproto, wdelay, welapsed, wsignal,
                   logVars, lockVars, classifierVars>>

\* deferred handler, line 390: the context is done, or checkAutoRestart lines
\* 604-608 finds AutoRestart off; the handler returns and wg.Done() runs.
\* autos is cfg.AutoRestart.
WExitDone(s, autos) ==
    /\ Ready
    /\ UNCHANGED logVars
    /\ UNCHANGED <<lockVars, classifierVars>>
    /\ wpc[s] = "exitcheck"
    /\ ctxDone[s] \/ FALSE \in autos
    /\ wgDone(s)
    /\ UNCHANGED <<running, lastError, restartCount, lastRestart, configFile,
                   cancelOwner, starts, initOnceDone, initCalls, protocolVars, disk,
                   cpc, ret, stopFile, wcfg, wlocal, wproto, wdelay,
                   welapsed, wsignal>>

\* a handler that goes on to checkAutoRestart without looking at its context
WExitCheckNoContextCheck(s, autos) ==
    /\ Ready
    /\ wpc[s] = "exitcheck"
    /\ TRUE \in autos
    /\ wpc' = [wpc EXCEPT ![s] = "car"]
    /\ UNCHANGED <<supervisorVars, protocolVars, disk, callerVars, ctxDone, wcfg,
                   werr, wfile, wlocal, wproto, wdelay, welapsed, wsignal,
                   logVars, lockVars, classifierVars>>

\* deferred handler, line 390: the context is not done, and checkAutoRestart
\* lines 604-608 finds AutoRestart on
WExitCheck(s, autos) ==
    /\ Ready
    /\ UNCHANGED logVars
    /\ UNCHANGED <<lockVars, classifierVars>>
    /\ wpc[s] = "exitcheck"
    /\ ~ctxDone[s]
    /\ TRUE \in autos
    /\ wpc' = [wpc EXCEPT ![s] = "car"]
    /\ UNCHANGED <<supervisorVars, protocolVars, disk, callerVars, ctxDone, wcfg,
                   werr, wfile, wlocal, wproto, wdelay, welapsed, wsignal>>

\* the goroutine ends after checkAutoRestart returned, from line 626 when it
\* gave up or from line 640 after its Start()
WDone(s) ==
    /\ Ready
    /\ UNCHANGED logVars
    /\ UNCHANGED <<lockVars, classifierVars>>
    /\ wpc[s] \in {"wgdone", "giveup"}
    /\ wgDone(s)
    /\ UNCHANGED <<running, lastError, restartCount, lastRestart, configFile,
                   cancelOwner, starts, initOnceDone, initCalls, protocolVars, disk,
                   cpc, ret, stopFile, wcfg, wlocal, wproto, wdelay,
                   welapsed, wsignal>>

\* minutes
RestartWindow == 5
MaxRestarts == 10

\* the delay computed from the count after its increment
backoffDelayAfterIncrement(count) ==
    LET delay == 5 * (2 ^ (count + 1))
    IN IF delay > 60 THEN 60 ELSE delay

\* lines 617-620, seconds
backoffDelay(count) ==
    LET delay == 5 * (2 ^ count)
    IN IF delay > 60 THEN 60 ELSE delay

\* time.Since(lastRestart), minutes: of the zero time.Time it is beyond any
\* window, of a time.Now() recorded earlier it is no time, the window itself
\* or more than the window
Elapsed == IF lastRestart = "zero" THEN {MaxElapsed} ELSE {0, RestartWindow, MaxElapsed}

\* a limit check that never stops the restarts
restartLimitNever(count) == FALSE

\* line 623
restartLimitReached(count) == count >= MaxRestarts

\* checkAutoRestart lines 610-632
WCheckAutoRestart(s) ==
    /\ Ready
    /\ UNCHANGED logVars
    /\ UNCHANGED <<lockVars, classifierVars>>
    /\ wpc[s] = "car"
    /\ \E since \in Elapsed :
         LET count == IF since > RestartWindow THEN 0 ELSE restartCount
         IN IF restartLimitReached(count)
            THEN /\ restartCount' = count
                 /\ wpc' = [wpc EXCEPT ![s] = "giveup"]
                 /\ UNCHANGED <<lastRestart, wdelay, welapsed>>
            ELSE /\ restartCount' = count + 1
                 /\ lastRestart' = "set"
                 /\ welapsed' = [welapsed EXCEPT ![s] = since]
                 /\ wdelay' = [wdelay EXCEPT ![s] = backoffDelay(count)]
                 /\ wpc' = [wpc EXCEPT ![s] = "sleep"]
    /\ UNCHANGED <<running, lastError, configFile, cancelOwner, wg, starts,
                   initOnceDone, initCalls, protocolVars, disk, callerVars, ctxDone,
                   wcfg, werr, wfile, wlocal, wproto, wsignal>>

\* checkAutoRestart lines 636-640: the sleep is over, r.Start()
WRestart(s, budget) ==
    /\ Ready
    /\ UNCHANGED logVars
    /\ UNCHANGED <<lockVars, classifierVars>>
    /\ wpc[s] = "sleep"
    /\ \E token \in Tokens : Start(token, [wpc EXCEPT ![s] = "wgdone"], budget)
    /\ wdelay' = [wdelay EXCEPT ![s] = 0]
    /\ welapsed' = [welapsed EXCEPT ![s] = 0]
    /\ UNCHANGED <<restartCount, lastRestart, configFile, protocolVars, disk,
                   callerVars, wcfg, werr, wfile, wlocal, wproto, wsignal>>

(***************************************************************************)
(* logger.LogBroadcaster.  Every method body runs with LogBroadcaster.mu   *)
(* held and is one step; Close() waits for the sweep goroutine between its *)
(* two steps.                                                              *)
(***************************************************************************)
\* Subscribe, lines 268-279: make(chan string, subscriberBufferSize)
Subscribe ==
    /\ \E c \in ChanIds :
          /\ chanState[c] = "none"
          /\ \A d \in ChanIds : chanState[d] = "none" => c <= d
          /\ chanState' = [chanState EXCEPT ![c] = "open"]
          /\ subscribers' = subscribers \cup {c}
          /\ lastActive' = [lastActive EXCEPT ![c] = TRUE]
    /\ UNCHANGED <<buffer, bufferPos, cleanupDone, sweeper, closePc, chanQueue,
                   logPanic, logged>>
    /\ UNCHANGED <<runnerVars, unsubscribed>>
    /\ UNCHANGED <<lockVars, classifierVars>>

\* Unsubscribe, lines 292-298: delete, then close(ch), which panics when the
\* channel is closed already.  Its one caller is the log stream handler,
\* which defers it right after Subscribe: it runs once for a channel.
Unsubscribe(c) ==
    /\ chanState[c] # "none"
    /\ c \notin unsubscribed
    /\ unsubscribed' = unsubscribed \cup {c}
    /\ subscribers' = subscribers \ {c}
    /\ lastActive' = [lastActive EXCEPT ![c] = FALSE]
    /\ IF chanState[c] = "closed"
       THEN /\ logPanic' = "Unsubscribe"
            /\ UNCHANGED chanState
       ELSE /\ chanState' = [chanState EXCEPT ![c] = "closed"]
            /\ UNCHANGED logPanic
    /\ UNCHANGED <<buffer, bufferPos, cleanupDone, sweeper, closePc,
                   chanQueue, logged>>
    /\ UNCHANGED runnerVars
    /\ UNCHANGED <<lockVars, classifierVars>>

\* MarkActive without the lookup in the subscriber map
MarkActiveNoLookup(c) ==
    /\ chanState[c] # "none"
    /\ c \notin unsubscribed
    /\ lastActive' = [lastActive EXCEPT ![c] = TRUE]
    /\ UNCHANGED <<subscribers, buffer, bufferPos, cleanupDone, sweeper, closePc,
                   chanState, chanQueue, logPanic, logged>>
    /\ UNCHANGED <<runnerVars, unsubscribed>>
    /\ UNCHANGED <<lockVars, classifierVars>>

\* MarkActive, lines 282-289, called by the stream handler on its heartbeat
\* with its own channel, which the sweep or Close() may have removed already
MarkActive(c) ==
    /\ chanState[c] # "none"
    /\ c \notin unsubscribed
    /\ lastActive' = IF c \in subscribers
                     THEN [lastActive EXCEPT ![c] = TRUE]
                     ELSE lastActive
    /\ UNCHANGED <<subscribers, buffer, bufferPos, cleanupDone, sweeper, closePc,
                   chanState, chanQueue, logPanic, logged>>
    /\ UNCHANGED <<runnerVars, unsubscribed>>
    /\ UNCHANGED <<lockVars, classifierVars>>

\* subscriberTimeout passes since the subscriber's lastActive
Expire(c) ==
    /\ c \in subscribers
    /\ lastActive[c]
    /\ lastActive' = [lastActive EXCEPT ![c] = FALSE]
    /\ UNCHANGED <<subscribers, buffer, bufferPos, cleanupDone, sweeper, closePc,
                   chanState, chanQueue, logPanic, logged>>
    /\ UNCHANGED <<runnerVars, unsubscribed>>
    /\ UNCHANGED <<lockVars, classifierVars>>

\* a send that drops the oldest buffered line of a full channel
deliverDropOldest(queue, line) ==
    IF Len(queue) < subscriberBufferSize THEN Append(queue, line)
    ELSE Append(Tail(queue), line)

\* a send that puts the line in front of the buffered ones
deliverAtFront(queue, line) ==
    IF Len(queue) < subscriberBufferSize THEN <<line>> \o queue ELSE queue

\* lines 311-317: the non-blocking send on a subscriber channel
deliver(queue, line) ==
    IF Len(queue) < subscriberBufferSize THEN Append(queue, line) ELSE queue

\* Broadcast, lines 301-319
Broadcast(line) ==
    /\ Len(logged) < MaxBroadcasts
    /\ buffer' = [buffer EXCEPT ![bufferPos] = line]
    /\ bufferPos' = (bufferPos + 1) % bufferSize
    /\ chanQueue' = [c \in ChanIds |->
                        IF c \in subscribers THEN deliver(chanQueue[c], line)
                        ELSE chanQueue[c]]
    /\ lastActive' = [c \in ChanIds |->
                         IF c \in subscribers /\ Len(chanQueue[c]) < subscriberBufferSize
                         THEN TRUE ELSE lastActive[c]]
    /\ logged' = Append(logged, line)
    /\ UNCHANGED <<subscribers, cleanupDone, sweeper, closePc, chanState, logPanic>>
    /\ UNCHANGED <<runnerVars, unsubscribed>>
    /\ UNCHANGED <<lockVars, classifierVars>>

\* the reader of a subscriber channel (the log stream handler) takes a line
Receive(c) ==
    /\ chanQueue[c] # <<>>
    /\ chanQueue' = [chanQueue EXCEPT ![c] = Tail(@)]
    /\ UNCHANGED <<subscribers, lastActive, buffer, bufferPos, cleanupDone, sweeper,
                   closePc, chanState, logPanic, logged>>
    /\ UNCHANGED <<runnerVars, unsubscribed>>
    /\ UNCHANGED <<lockVars, classifierVars>>

\* the cells of the ring in the order buffer.Do visits them
RingOrder == [i \in 1..bufferSize |-> buffer[(bufferPos + i - 1) % bufferSize]]

KeptLine(v) == v # Nil /\ v # ""

\* a snapshot read from the first cell of the ring
GetRecentLogsFromFirstCell ==
    SelectSeq([i \in 1..bufferSize |-> buffer[i - 1]], KeptLine)

\* GetRecentLogs, lines 322-335
GetRecentLogs == SelectSeq(RingOrder, KeptLine)

\* a tick that evicts every subscriber
SweepEvictsAll ==
    /\ sweeper = "running"
    /\ \E c \in subscribers : ~lastActive[c]
    /\ subscribers' = {}
    /\ chanState' = [c \in ChanIds |->
                        IF c \in subscribers THEN "closed" ELSE chanState[c]]
    /\ UNCHANGED <<lastActive, buffer, bufferPos, cleanupDone, sweeper, closePc,
                   chanQueue, logPanic, logged>>
    /\ UNCHANGED <<runnerVars, unsubscribed>>
    /\ UNCHANGED <<lockVars, classifierVars>>

\* cleanupInactiveSubscribers, lines 236-247: a tick of the ticker that finds
\* inactive subscribers
Sweep ==
    /\ sweeper = "running"
    /\ \E c \in subscribers : ~lastActive[c]
    /\ subscribers' = {c \in subscribers : lastActive[c]}
    /\ chanState' = [c \in ChanIds |->
                        IF c \in subscribers /\ ~lastActive[c] THEN "closed"
                        ELSE chanState[c]]
    /\ UNCHANGED <<lastActive, buffer, bufferPos, cleanupDone, sweeper, closePc,
                   chanQueue, logPanic, logged>>
    /\ UNCHANGED <<runnerVars, unsubscribed>>
    /\ UNCHANGED <<lockVars, classifierVars>>

\* cleanupInactiveSubscribers, lines 248-249 and 230
SweepExit ==
    /\ sweeper = "running"
    /\ cleanupDone = "closed"
    /\ sweeper' = "exited"
    /\ UNCHANGED <<subscribers, lastActive, buffer, bufferPos, cleanupDone, closePc,
                   chanState, chanQueue, logPanic, logged>>
    /\ UNCHANGED <<runnerVars, unsubscribed>>
    /\ UNCHANGED <<lockVars, classifierVars>>

\* Close, line 256: close(b.cleanupDone), which panics when it is closed already
CloseSignal ==
    /\ closePc = "idle"
    /\ IF cleanupDone = "closed"
       THEN /\ logPanic' = "Close"
            /\ UNCHANGED <<cleanupDone, closePc>>
       ELSE /\ cleanupDone' = "closed"
            /\ closePc' = "waiting"
            /\ UNCHANGED logPanic
    /\ UNCHANGED <<subscribers, lastActive, buffer, bufferPos, sweeper, chanState,
                   chanQueue, logged>>
    /\ UNCHANGED <<runnerVars, unsubscribed>>
    /\ UNCHANGED <<lockVars, classifierVars>>

\* a Close() that closes the channels and keeps the subscriber map
CloseFinishKeepsMap ==
    /\ closePc = "waiting"
    /\ sweeper = "exited"
    /\ chanState' = [c \in ChanIds |->
                        IF c \in subscribers THEN "closed" ELSE chanState[c]]
    /\ closePc' = "idle"
    /\ UNCHANGED <<subscribers, lastActive, buffer, bufferPos, cleanupDone,
                   sweeper, chanQueue, logPanic, logged>>
    /\ UNCHANGED <<runnerVars, unsubscribed>>
    /\ UNCHANGED <<lockVars, classifierVars>>

\* Close, lines 257-264: wg.Wait() returned
CloseFinish ==
    /\ closePc = "waiting"
    /\ sweeper = "exited"
    /\ chanState' = [c \in ChanIds |->
                        IF c \in subscribers THEN "closed" ELSE chanState[c]]
    /\ subscribers' = {}
    /\ lastActive' = [c \in ChanIds |-> FALSE]
    /\ closePc' = "idle"
    /\ UNCHANGED <<buffer, bufferPos, cleanupDone, sweeper, chanQueue,
                   logPanic, logged>>
    /\ UNCHANGED <<runnerVars, unsubscribed>>
    /\ UNCHANGED <<lockVars, classifierVars>>

\* the lines the logger writes are told apart by their number
BroadcastNumbered == Broadcast(ToString(Len(logged) + 1))

NextLog ==
    \/ Subscribe
    \/ \E c \in ChanIds : Unsubscribe(c)
    \/ \E c \in ChanIds : MarkActive(c)
    \/ \E c \in ChanIds : Expire(c)
    \/ BroadcastNumbered
    \/ \E c \in ChanIds : Receive(c)
    \/ Sweep
    \/ SweepExit
    \/ CloseSignal
    \/ CloseFinish

SpecLog == Init /\ [][NextLog]_vars

(***************************************************************************)
(* The history ring alone: any sequence of lines, empty ones among them,   *)
(* is broadcast while nobody subscribes.                                   *)
(***************************************************************************)
NextRing == \E line \in Lines : Broadcast(line)

SpecRing == Init /\ [][NextRing]_vars

(***************************************************************************)
(* The supervisor under concurrent callers: HTTP handler goroutines call   *)
(* Start and Stop at any time, a custom tag may be configured, the tunnel  *)
(* call may return cleanly, fail or panic.                                 *)
(***************************************************************************)
SpecProtocols == {"auto"}
SpecOutcomes == {NoError, PanicError, Err(<<"Unauthorized">>)}

Next ==
    \/ Return
    \/ CallStart(MaxStarts)
    \/ StopIdle
    \/ \E c \in Callers : StopBegin(c)
    \/ \E c \in Callers : StopWaitDone(c)
    \/ \E c \in Callers : StopGraceful(c)
    \/ \E c \in Callers : StopTimeout(c)
    \/ \E c \in Callers : StopForceIdle(c)
    \/ \E c \in Callers : StopCleanupLock(c)
    \/ \E c \in Callers : StopRemove(c)
    \/ \E s \in Slots : WCreateConfig(s, SpecProtocols)
    \/ \E s \in Slots : WSelect(s, SpecProtocols)
    \/ \E s \in Slots : WTunnelReturn(s, SpecOutcomes)
    \/ \E s \in Slots : WSetErr(s)
    \/ \E s \in Slots : WRecordFailure(s)
    \/ \E s \in Slots : WRecordSuccess(s)
    \/ \E s \in Slots : WRecover(s)
    \/ \E s \in Slots : WCleanupLock(s)
    \/ \E s \in Slots : WRemove(s)
    \/ \E s \in Slots : WSetIdle(s)
    \/ \E s \in Slots : WExitDone(s, BOOLEAN)
    \/ \E s \in Slots : WExitCheck(s, BOOLEAN)
    \/ \E s \in Slots : WCheckAutoRestart(s)
    \/ \E s \in Slots : WRestart(s, MaxStarts)
    \/ \E s \in Slots : WDone(s)

Spec == Init /\ [][Next]_vars

(***************************************************************************)
(* The supervisor under concurrent callers when no custom tag is           *)
(* configured and the tunnel call returns cleanly or with an error.        *)
(***************************************************************************)
CallsProtocols == {"auto"}
CallsOutcomes == {NoError, Err(<<"Unauthorized">>)}

NextCalls ==
    \/ Return
    \/ CallStart(MaxStarts)
    \/ StopIdle
    \/ \E c \in Callers : StopBegin(c)
    \/ \E c \in Callers : StopWaitDone(c)
    \/ \E c \in Callers : StopGraceful(c)
    \/ \E c \in Callers : StopTimeout(c)
    \/ \E c \in Callers : StopForceIdle(c)
    \/ \E c \in Callers : StopCleanupLock(c)
    \/ \E c \in Callers : StopRemove(c)
    \/ \E s \in Slots : WSelect(s, CallsProtocols)
    \/ \E s \in Slots : WTunnelReturn(s, CallsOutcomes)
    \/ \E s \in Slots : WSetErr(s)
    \/ \E s \in Slots : WRecordFailure(s)
    \/ \E s \in Slots : WRecordSuccess(s)
    \/ \E s \in Slots : WCleanupLock(s)
    \/ \E s \in Slots : WSetIdle(s)
    \/ \E s \in Slots : WExitDone(s, BOOLEAN)
    \/ \E s \in Slots : WExitCheck(s, BOOLEAN)
    \/ \E s \in Slots : WCheckAutoRestart(s)
    \/ \E s \in Slots : WRestart(s, MaxStarts)
    \/ \E s \in Slots : WDone(s)

SpecCalls == Init /\ [][NextCalls]_vars

(***************************************************************************)
(* The supervisor through a chain of worker exits: the tunnel is started   *)
(* and never stopped, no custom tag is configured, the tunnel call returns *)
(* cleanly or fails with a retryable error.                                *)
(***************************************************************************)
ChainProtocols == {"auto"}
ChainOutcomes == {NoError, Err(<<"broken", "pipe">>)}

NextChain ==
    \/ Return
    \/ CallStart(ChainStarts)
    \/ \E s \in Slots : WSelect(s, ChainProtocols)
    \/ \E s \in Slots : WTunnelReturn(s, ChainOutcomes)
    \/ \E s \in Slots : WSetErr(s)
    \/ \E s \in Slots : WRecordFailure(s)
    \/ \E s \in Slots : WRecordSuccess(s)
    \/ \E s \in Slots : WCleanupLock(s)
    \/ \E s \in Slots : WSetIdle(s)
    \/ \E s \in Slots : WExitDone(s, BOOLEAN)
    \/ \E s \in Slots : WExitCheck(s, BOOLEAN)
    \/ \E s \in Slots : WCheckAutoRestart(s)
    \/ \E s \in Slots : WRestart(s, ChainStarts)
    \/ \E s \in Slots : WDone(s)

SpecChain == Init /\ [][NextChain]_vars

(***************************************************************************)
(* The supervisor through a chain of crashes long enough to exhaust the    *)
(* restart attempts: every tunnel call fails with a retryable error.       *)
(***************************************************************************)
LimitProtocols == {"auto"}
LimitOutcomes == {Err(<<"broken", "pipe">>)}

NextLimit ==
    \/ Return
    \/ CallStart(LimitStarts)
    \/ \E s \in Slots : WSelect(s, LimitProtocols)
    \/ \E s \in Slots : WTunnelReturn(s, LimitOutcomes)
    \/ \E s \in Slots : WSetErr(s)
    \/ \E s \in Slots : WRecordFailure(s)
    \/ \E s \in Slots : WCleanupLock(s)
    \/ \E s \in Slots : WSetIdle(s)
    \/ \E s \in Slots : WExitDone(s, BOOLEAN)
    \/ \E s \in Slots : WExitCheck(s, BOOLEAN)
    \/ \E s \in Slots : WCheckAutoRestart(s)
    \/ \E s \in Slots : WRestart(s, LimitStarts)
    \/ \E s \in Slots : WDone(s)

SpecLimit == Init /\ [][NextLimit]_vars

(***************************************************************************)
(* The protocol selector in automatic mode: every run reads cfg.Protocol = *)
(* "auto", and the tunnel call returns an error that is retryable and      *)
(* protocol-related.                                                       *)
(***************************************************************************)
FallbackProtocols == {"auto"}
FallbackOutcomes == {Err(<<"connection", "refused">>)}

NextFallback ==
    \/ Return
    \/ CallStart(FallbackStarts)
    \/ \E s \in Slots : WSelect(s, FallbackProtocols)
    \/ \E s \in Slots : WTunnelReturn(s, FallbackOutcomes)
    \/ \E s \in Slots : WSetErr(s)
    \/ \E s \in Slots : WRecordFailure(s)
    \/ \E s \in Slots : WCleanupLock(s)
    \/ \E s \in Slots : WSetIdle(s)
    \/ \E s \in Slots : WExitDone(s, BOOLEAN)
    \/ \E s \in Slots : WExitCheck(s, BOOLEAN)
    \/ \E s \in Slots : WCheckAutoRestart(s)
    \/ \E s \in Slots : WRestart(s, FallbackStarts)
    \/ \E s \in Slots : WDone(s)

SpecFallback == Init /\ [][NextFallback]_vars

(***************************************************************************)
(* The protocol selector where a run reads cfg.Protocol = "auto" or an     *)
(* explicit "http2".                                                       *)
(***************************************************************************)
MixProtocols == {"auto", "http2"}
MixOutcomes == {NoError, Err(<<"connection", "refused">>)}

NextMix ==
    \/ Return
    \/ CallStart(MixStarts)
    \/ \E s \in Slots : WSelect(s, MixProtocols)
    \/ \E s \in Slots : WTunnelReturn(s, MixOutcomes)
    \/ \E s \in Slots : WSetErr(s)
    \/ \E s \in Slots : WRecordFailure(s)
    \/ \E s \in Slots : WRecordSuccess(s)
    \/ \E s \in Slots : WCleanupLock(s)
    \/ \E s \in Slots : WSetIdle(s)
    \/ \E s \in Slots : WExitDone(s, BOOLEAN)
    \/ \E s \in Slots : WExitCheck(s, BOOLEAN)
    \/ \E s \in Slots : WCheckAutoRestart(s)
    \/ \E s \in Slots : WRestart(s, MixStarts)
    \/ \E s \in Slots : WDone(s)

SpecMix == Init /\ [][NextMix]_vars

(***************************************************************************)
(* Start() and Stop() racing when no Stop() reaches its timeout: no custom *)
(* tag, cfg.Protocol is "auto", the tunnel call returns nil or one of two   *)
(* errors.                                                                 *)
(***************************************************************************)
RaceProtocols == {"auto"}
RaceOutcomes == {NoError, Err(<<"connection", "refused">>), Err(<<"boom">>)}

NextRace ==
    \/ Return
    \/ CallStart(RaceStarts)
    \/ StopIdle
    \/ \E c \in Callers : StopBegin(c)
    \/ \E c \in Callers : StopWaitDone(c)
    \/ \E c \in Callers : StopGraceful(c)
    \/ \E s \in Slots : WSelect(s, RaceProtocols)
    \/ \E s \in Slots : WTunnelReturn(s, RaceOutcomes)
    \/ \E s \in Slots : WSetErr(s)
    \/ \E s \in Slots : WRecordFailure(s)
    \/ \E s \in Slots : WRecordSuccess(s)
    \/ \E s \in Slots : WCleanupLock(s)
    \/ \E s \in Slots : WSetIdle(s)
    \/ \E s \in Slots : WExitDone(s, BOOLEAN)
    \/ \E s \in Slots : WExitCheck(s, BOOLEAN)
    \/ \E s \in Slots : WCheckAutoRestart(s)
    \/ \E s \in Slots : WRestart(s, RaceStarts)
    \/ \E s \in Slots : WDone(s)

SpecRace == Init /\ [][NextRace]_vars

(***************************************************************************)
(* The supervisor with AutoRestart disabled in the configuration: the      *)
(* tunnel call returns nil or an error, or panics.                         *)
(***************************************************************************)
NoAutoRestart == {FALSE}
NoAutoProtocols == {"auto"}
NoAutoOutcomes == {NoError, Err(<<"connection", "refused">>), PanicError}

NextNoAuto ==
    \/ Return
    \/ CallStart(MixStarts)
    \/ \E s \in Slots : WSelect(s, NoAutoProtocols)
    \/ \E s \in Slots : WTunnelReturn(s, NoAutoOutcomes)
    \/ \E s \in Slots : WSetErr(s)
    \/ \E s \in Slots : WRecordFailure(s)
    \/ \E s \in Slots : WRecordSuccess(s)
    \/ \E s \in Slots : WRecover(s)
    \/ \E s \in Slots : WCleanupLock(s)
    \/ \E s \in Slots : WSetIdle(s)
    \/ \E s \in Slots : WExitDone(s, NoAutoRestart)

SpecNoAuto == Init /\ [][NextNoAuto]_vars

(***************************************************************************)
(* Stop() against pending restarts: AutoRestart is on, every tunnel call   *)
(* fails with a retryable error, no Stop() reaches its timeout.            *)
(***************************************************************************)
PendingProtocols == {"auto"}
PendingOutcomes == {Err(<<"connection", "refused">>)}
PendingAutoRestart == {TRUE}

NextPending ==
    \/ Return
    \/ CallStart(PendingStarts)
    \/ StopIdle
    \/ \E c \in Callers : StopBegin(c)
    \/ \E c \in Callers : StopWaitDone(c)
    \/ \E c \in Callers : StopGraceful(c)
    \/ \E s \in Slots : WSelect(s, PendingProtocols)
    \/ \E s \in Slots : WTunnelReturn(s, PendingOutcomes)
    \/ \E s \in Slots : WSetErr(s)
    \/ \E s \in Slots : WRecordFailure(s)
    \/ \E s \in Slots : WCleanupLock(s)
    \/ \E s \in Slots : WSetIdle(s)
    \/ \E s \in Slots : WExitDone(s, PendingAutoRestart)
    \/ \E s \in Slots : WExitCheck(s, PendingAutoRestart)
    \/ \E s \in Slots : WCheckAutoRestart(s)
    \/ \E s \in Slots : WRestart(s, PendingStarts)
    \/ \E s \in Slots : WDone(s)

SpecPending == Init /\ [][NextPending]_vars

(***************************************************************************)
(* The failure counters: cfg.Protocol is "auto" or "http2", and every      *)
(* tunnel call returns an error: one that is protocol-related, in mixed     *)
(* case, or one that is not.                                               *)
(***************************************************************************)
CountProtocols == {"auto", "http2"}
CountOutcomes ==
    {Err(<<"QUIC", "handshake">>), Err(<<"authentication", "failed">>)}

NextCount ==
    \/ Return
    \/ CallStart(MixStarts)
    \/ \E s \in Slots : WSelect(s, CountProtocols)
    \/ \E s \in Slots : WTunnelReturn(s, CountOutcomes)
    \/ \E s \in Slots : WSetErr(s)
    \/ \E s \in Slots : WRecordFailure(s)
    \/ \E s \in Slots : WCleanupLock(s)
    \/ \E s \in Slots : WSetIdle(s)
    \/ \E s \in Slots : WExitDone(s, BOOLEAN)
    \/ \E s \in Slots : WExitCheck(s, BOOLEAN)
    \/ \E s \in Slots : WCheckAutoRestart(s)
    \/ \E s \in Slots : WRestart(s, MixStarts)
    \/ \E s \in Slots : WDone(s)

SpecCount == Init /\ [][NextCount]_vars

(***************************************************************************)
(* The protocol selector with an explicit protocol: every run reads        *)
(* cfg.Protocol = "http2", and every tunnel call returns a retryable,      *)
(* protocol-related error.                                                 *)
(***************************************************************************)
ExplicitProtocol == "http2"
ExplicitProtocols == {ExplicitProtocol}
ExplicitOutcomes == {Err(<<"connection", "refused">>)}

NextExplicit ==
    \/ Return
    \/ CallStart(ExplicitStarts)
    \/ \E s \in Slots : WSelect(s, ExplicitProtocols)
    \/ \E s \in Slots : WTunnelReturn(s, ExplicitOutcomes)
    \/ \E s \in Slots : WSetErr(s)
    \/ \E s \in Slots : WRecordFailure(s)
    \/ \E s \in Slots : WCleanupLock(s)
    \/ \E s \in Slots : WSetIdle(s)
    \/ \E s \in Slots : WExitDone(s, BOOLEAN)
    \/ \E s \in Slots : WExitCheck(s, BOOLEAN)
    \/ \E s \in Slots : WCheckAutoRestart(s)
    \/ \E s \in Slots : WRestart(s, ExplicitStarts)
    \/ \E s \in Slots : WDone(s)

SpecExplicit == Init /\ [][NextExplicit]_vars

(***************************************************************************)
(* The supervisor at the grain of Runner.mu.  Every Lock() and Unlock() of *)
(* Start, Stop, Status, runTunnel and checkAutoRestart is a step; of the   *)
(* fields only running, the wait group, the contexts and the cancellation *)
(* handle are followed.  No custom tag is configured and the token is set. *)
(***************************************************************************)
\* the Lock() calls, by line: Start 130, Stop 175, 209 and 217, Status 227,
\* recordProtocolSuccess 296, recordProtocolFailure 320, the deferred handler
\* 378 and 386, runTunnel 441 and 517, cleanupConfigFile 589,
\* checkAutoRestart 610; and the critical section each of them opens
Holding ==
    [L130 |-> "H130", L175 |-> "H175", L209 |-> "H209", L217 |-> "H217",
     L227 |-> "H227", L296 |-> "H296", L320 |-> "H320", L378 |-> "H378",
     L386 |-> "H386", L441 |-> "H441", L517 |-> "H517", L589 |-> "H589",
     L610 |-> "H610"]

LockSites == DOMAIN Holding
HeldSites == {Holding[l] : l \in LockSites}

\* the places where a goroutine blocks: app.RunContext (line 507), time.Sleep
\* (line 636) and the select of Stop (lines 207-214)
BlockingSites == {"tunnel", "sleep", "wait"}

MuFreeSlots == {s \in MutexSlots : lpc[Worker(s)] = "idle"}
MuNewSlot == CHOOSE s \in MuFreeSlots : \A t \in MuFreeSlots : s <= t

\* cancel() of lines 158-160 and 183-185
MuCancel ==
    IF cancelOwner # 0 /\ lpc[Worker(cancelOwner)] # "idle"
    THEN [ctxDone EXCEPT ![cancelOwner] = TRUE]
    ELSE ctxDone

\* what the lock-grain steps leave alone
muFrame == <<lastError, restartCount, lastRestart, configFile, initOnceDone,
             initCalls, protocolVars, disk, callerVars, wpc, wcfg, werr, wfile,
             wlocal, wproto, wdelay, welapsed, wsignal, logVars,
             classifierVars>>

\* a goroutine calls Start(), Stop() or Status() and arrives at its Lock()
Call(g) ==
    /\ g \in {StartCaller, StopCaller, StatusCaller}
    /\ lpc[g] = "idle"
    /\ lpc' = [lpc EXCEPT ![g] = CASE g = StartCaller -> "L130"
                                   [] g = StopCaller -> "L175"
                                   [] OTHER -> "L227"]
    /\ UNCHANGED <<mu, running, wg, ctxDone, cancelOwner, starts, muFrame>>

\* r.mu.Lock().  budget bounds the workers a behaviour spawns: a Start() that
\* would spawn one more stays at its Lock().
Lock(g, budget) ==
    /\ lpc[g] \in LockSites
    /\ mu = Free
    /\ (lpc[g] = "L130" /\ ~running) => starts < budget /\ MuFreeSlots # {}
    /\ mu' = g
    /\ lpc' = [lpc EXCEPT ![g] = Holding[lpc[g]]]
    /\ UNCHANGED <<running, wg, ctxDone, cancelOwner, starts, muFrame>>

\* where a goroutine goes when it leaves the critical section: Start returns
\* (lines 133-136 or 170); Stop returns at line 179 when not running and else
\* waits; the in-time branch of Stop returns and its timeout branch goes on to
\* cleanupConfigFile; the worker goes from selectProtocol into the tunnel
\* call, from each of its exit paths to the handler's cleanupConfigFile, then
\* to line 386; checkAutoRestart returns at line 626 or sleeps
AfterUnlock(g, site) ==
    CASE site = "H130" -> IF g = StartCaller THEN {"idle"} ELSE {"exit"}
      [] site = "H175" -> IF running THEN {"wait"} ELSE {"idle"}
      [] site = "H209" -> {"idle"}
      [] site = "H217" -> {"L589"}
      [] site = "H227" -> {"idle"}
      [] site = "H296" -> {"L589"}
      [] site = "H320" -> {"L589"}
      [] site = "H378" -> {"L589"}
      [] site = "H386" -> {"exitcheck"}
      [] site = "H441" -> {"tunnel"}
      [] site = "H517" -> {"L320"}
      [] site = "H589" -> IF g = StopCaller THEN {"idle"} ELSE {"L386"}
      [] site = "H610" -> {"exit", "sleep"}

\* a supervisor whose checkAutoRestart sleeps before it unlocks
UnlockedAfterSleep(g, site) == IF site = "H610" THEN g ELSE Free

\* a supervisor whose Stop() waits for the worker before it unlocks
UnlockedAfterWait(g, site) == IF site = "H175" THEN g ELSE Free

\* the holder of the mutex when goroutine g has left the critical section:
\* every path out of one runs r.mu.Unlock() (lines 131, 177, 196, 211, 219,
\* 228, 297, 321, 380, 388, 443, 519, 592, 625, 632) before the next step
Unlocked(g, site) == Free

\* r.mu.Unlock() at the end of a critical section, with what the section did
\* to running, the contexts and the wait group: Start (lines 133-170) spawns
\* a worker unless running; Stop (lines 176-196) cancels when running; lines
\* 210, 218 and 387 clear running
Unlock(g) ==
    /\ mu = g
    /\ lpc[g] \in HeldSites
    /\ LET site == lpc[g]
           spawn == site = "H130" /\ ~running
       IN /\ mu' = Unlocked(g, site)
          /\ running' = (IF spawn THEN TRUE
                         ELSE IF site \in {"H209", "H217", "H386"} THEN FALSE
                         ELSE running)
          /\ ctxDone' = (IF spawn THEN [MuCancel EXCEPT ![MuNewSlot] = FALSE]
                         ELSE IF site = "H175" /\ running THEN MuCancel
                         ELSE ctxDone)
          /\ cancelOwner' = (IF spawn THEN MuNewSlot ELSE cancelOwner)
          /\ wg' = (IF spawn THEN wg + 1 ELSE wg)
          /\ starts' = (IF spawn THEN starts + 1 ELSE starts)
          /\ \E next \in AfterUnlock(g, site) :
                lpc' = [h \in Goroutines |->
                           IF h = g THEN next
                           ELSE IF spawn /\ h = Worker(MuNewSlot) THEN "L441"
                           ELSE lpc[h]]
    /\ UNCHANGED muFrame

\* line 507: app.RunContext ends with a panic, or returns with the context
\* cancelled, with an error or with nil
TunnelEnds(s) ==
    /\ lpc[Worker(s)] = "tunnel"
    /\ \E next \in {"L378"} \cup (IF ctxDone[s] THEN {"L589"} ELSE {"L517", "L296"}) :
          lpc' = [lpc EXCEPT ![Worker(s)] = next]
    /\ UNCHANGED <<mu, running, wg, ctxDone, cancelOwner, starts, muFrame>>

\* lines 390-393 and 604-608: the handler returns when the context is done or
\* AutoRestart is off, else checkAutoRestart goes on to its Lock()
ExitCheck(s) ==
    /\ lpc[Worker(s)] = "exitcheck"
    /\ \E next \in {"exit"} \cup (IF ctxDone[s] THEN {} ELSE {"L610"}) :
          lpc' = [lpc EXCEPT ![Worker(s)] = next]
    /\ UNCHANGED <<mu, running, wg, ctxDone, cancelOwner, starts, muFrame>>

\* lines 636-638: time.Sleep returns and the worker calls Start()
SleepEnds(s) ==
    /\ lpc[Worker(s)] = "sleep"
    /\ lpc' = [lpc EXCEPT ![Worker(s)] = "L130"]
    /\ UNCHANGED <<mu, running, wg, ctxDone, cancelOwner, starts, muFrame>>

\* line 374: the deferred r.wg.Done(), the goroutine ends
GoroutineEnds(s) ==
    /\ lpc[Worker(s)] = "exit"
    /\ lpc' = [lpc EXCEPT ![Worker(s)] = "idle"]
    /\ wg' = wg - 1
    /\ ctxDone' = [ctxDone EXCEPT ![s] = FALSE]
    /\ UNCHANGED <<mu, running, cancelOwner, starts, muFrame>>

\* lines 207-214: the select of Stop takes done once wg.Wait() returned, or
\* the timer
WaitEnds ==
    /\ lpc[StopCaller] = "wait"
    /\ lpc' = [lpc EXCEPT ![StopCaller] = IF wg = 0 THEN "L209" ELSE "L217"]
    /\ UNCHANGED <<mu, running, wg, ctxDone, cancelOwner, starts, muFrame>>

NextMutex ==
    \/ \E g \in Goroutines : Call(g)
    \/ \E g \in Goroutines : Lock(g, MutexStarts)
    \/ \E g \in Goroutines : Unlock(g)
    \/ \E s \in MutexSlots : TunnelEnds(s)
    \/ \E s \in MutexSlots : ExitCheck(s)
    \/ \E s \in MutexSlots : SleepEnds(s)
    \/ \E s \in MutexSlots : GoroutineEnds(s)
    \/ WaitEnds

SpecMutex == Init /\ [][NextMutex]_vars

\* Go's mutex hands the lock to a goroutine that keeps waiting for it; a
\* goroutine that holds the mutex goes on to its Unlock(); the timer of Stop
\* fires.  Nothing makes the tunnel call return or a caller call.
MutexFairness ==
    /\ \A g \in Goroutines : SF_vars(Lock(g, MutexStarts))
    /\ \A g \in Goroutines : WF_vars(Unlock(g))
    /\ WF_vars(WaitEnds)

SpecMutexFair == SpecMutex /\ MutexFairness

(***************************************************************************)
(* The error classifier on its own: a caller hands isRetryableError nil or *)
(* an error whose message has up to MaxWords words, and takes the result.  *)
(***************************************************************************)
Words ==
    {"connection", "refused", "Timeout", "Unauthorized", "forbidden",
     "invalid", "token", "boom"}
Messages == UNION {[1..n -> Words] : n \in 1..MaxWords}
ErrorInputs == {NoError} \cup {Err(m) : m \in Messages}

InitClassifier ==
    /\ Constructed
    /\ callErr \in ErrorInputs
    /\ callResult = <<>>

CallIsRetryableError ==
    /\ callResult = <<>>
    /\ callResult' = <<isRetryableError(callErr)>>
    /\ UNCHANGED <<callErr, runnerVars, logVars, lockVars>>

NextClassifier == CallIsRetryableError

SpecClassifier == InitClassifier /\ [][NextClassifier]_vars

(***************************************************************************)
(* Properties of the supervisor.                                           *)
(***************************************************************************)
\* a worker task is active: spawned and not yet back from the tunnel call
Active(s) == wpc[s] \in {"begin", "select", "tunnel"}
ActiveWorkers == {s \in Slots : Active(s)}

\* the worker's run is over for the supervisor: a later Start() replaced its
\* cancellation handle
Superseded(s) == wpc[s] # "free" /\ cancelOwner # 0 /\ cancelOwner # s

\* the worker is in its deferred exit handler, before the restart decision
Exiting(s) == wpc[s] \in {"recover", "cleanup", "remove", "setidle", "exitcheck"}

\* the step is a Start() call returning
StartReturns == ret = NoRet /\ ret'[1] = "Start"

restOfState == <<supervisorVars, protocolVars, disk, cpc, stopTarget, stopFile,
                 workerVars, logVars, lockVars, classifierVars>>

\* C1: at most one worker task is active at any instant, for every interleaving
\* of Start, Stop (timing out or not), worker exits and restarts.
C1_AtMostOneActiveWorker == Cardinality(ActiveWorkers) <= 1

\* C2: a worker whose tunnel call returned a non-retryable error (context not
\* cancelled) never reaches the restart decision checkAutoRestart.
C2_NoRestartDecisionAfterNonRetryable ==
    \A s \in Slots :
        (werr[s].kind = "error" /\ ~isRetryableError(werr[s]))
            => wpc[s] \notin {"car", "sleep"}

\* C3: the exit handler of a worker superseded by a later successful Start()
\* (after a Stop() that timed out) changes neither running nor lastError nor
\* the recorded temporary config nor the files on disk, and starts no restart
\* decision.
C3_OrphanExitIsNoOp ==
    [][\A s \in Slots :
          (Superseded(s) /\ Exiting(s) /\ wpc'[s] # wpc[s])
              => /\ UNCHANGED <<running, lastError, configFile, disk>>
                 /\ wpc'[s] # "car"]_vars

\* C4: running is true only while a worker goroutine is alive, and running is
\* false only while no worker goroutine executes the tunnel call.
C4_RunningIffWorker ==
    /\ running => \E s \in Slots : wpc[s] # "free"
    /\ ~running => \A s \in Slots : wpc[s] # "tunnel"

\* C5: Start() called while running returns "already running", spawns no
\* worker and leaves every field of the supervisor unchanged.
C5_StartWhileRunning ==
    [][(StartReturns /\ running)
          => /\ ret'[2] = "already running"
             /\ UNCHANGED restOfState]_vars

C5_Witness == ret[1] = "Start" /\ ret[2] = "already running" /\ running

\* C6: Start() called while not running, the configured token being empty,
\* returns "token is required", spawns no worker, leaves running false, and
\* changes neither lastError nor the cancellation context nor the one-time
\* initialization; and that error is returned in no other case.
C6_StartWithoutToken ==
    [][/\ (StartReturns /\ ~running /\ ret'[3] = "")
            => /\ ret'[2] = "token is required"
               /\ UNCHANGED restOfState
       /\ (StartReturns /\ ret'[2] = "token is required")
            => ~running /\ ret'[3] = ""]_vars

C6_Witness ==
    /\ ret[1] = "Start" /\ ret[2] = "token is required" /\ ret[3] = ""
    /\ ~running /\ ~initOnceDone

\* C7: a Stop() call that returns in its first step was called while not
\* running, returns nil and changes nothing (no context is cancelled, no signal
\* is sent on the graceful-shutdown channel, the wait group is not waited on);
\* and a Stop() call goes on to cancel and wait only when running.
C7_StopWhileIdle ==
    [][/\ (ret = NoRet /\ ret' = <<"Stop", "nil", "">> /\ cpc' = cpc)
            => ~running /\ UNCHANGED restOfState
       /\ (\E c \in Callers : cpc[c] = "idle" /\ cpc'[c] # "idle")
            => running]_vars

C7_Witness == ret = <<"Stop", "nil", "">> /\ \A c \in Callers : cpc[c] = "idle"

\* C8: when Stop() returns the timeout error while the worker it cancelled is
\* still inside the tunnel call, running is false and the recorded temporary
\* config path is empty.
C8_StopTimeoutLeavesIdle ==
    [][\A c \in Callers :
          (/\ cpc[c] = "stop_remove"
           /\ cpc'[c] = "idle"
           /\ stopTarget[c] # 0
           /\ wpc[stopTarget[c]] = "tunnel")
              => ~running' /\ configFile' = 0]_vars

\* C9: a Stop() that found running = true never takes the timeout branch once
\* the worker it cancelled has returned, and when it returns nil the
\* supervisor is idle and no worker task is active.
C9_StopOfPromptWorker ==
    [][\A c \in Callers :
          /\ (cpc[c] = "stop_wait" /\ cpc'[c] = "stop_timeout")
                => stopTarget[c] # 0
          /\ (cpc[c] = "stop_graceful" /\ cpc'[c] = "idle")
                => ~running' /\ ActiveWorkers = {}]_vars

\* the delays of a chain of crashes, by the number of the restart attempt
ExpectedDelays == <<5, 10, 20, 40, 60, 60, 60, 60, 60, 60>>

\* C10: the restart scheduled after a worker exit sleeps min(60s, 5s * 2^n), n
\* being restartCount before its increment: the k-th restart of a chain of
\* crashes, each within 5 minutes of the previous restart, sleeps 5s, 10s,
\* 20s, 40s, 60s, 60s, ...
C10_BackoffDelays ==
    [][\A s \in Slots :
          (wpc[s] = "car" /\ wpc'[s] = "sleep")
              => /\ wdelay'[s] = ExpectedDelays[restartCount']
                 /\ welapsed'[s] <= RestartWindow
                       => restartCount' = restartCount + 1]_vars

C10_Witness ==
    \E s \in Slots : wpc[s] = "sleep" /\ wdelay[s] = 60 /\ restartCount = 6

\* C11: restartCount is reset (to 0, then counted up to 1) by the restart
\* decision that finds more than 5 minutes elapsed since lastRestart, it is
\* reset to 0 by the clean exit of a worker, and no other step lowers it.
C11_RestartCountResets ==
    [][/\ \A s \in Slots :
            (wpc[s] = "success" /\ wpc'[s] # "success") => restartCount' = 0
       /\ \A s \in Slots :
            (wpc[s] = "car" /\ wpc'[s] = "sleep" /\ welapsed'[s] > RestartWindow)
                => restartCount' = 1
       /\ (restartCount' # restartCount /\ restartCount' # restartCount + 1)
            => \/ \E s \in Slots : wpc[s] = "success" /\ wpc'[s] # "success"
               \/ \E s \in Slots : /\ wpc[s] = "car"
                                   /\ wpc'[s] = "sleep"
                                   /\ welapsed'[s] > RestartWindow]_vars

C11_Witness ==
    \E s \in Slots : /\ wpc[s] = "cleanup"
                     /\ werr[s].kind = "nil"
                     /\ ~ctxDone[s]
                     /\ lastRestart = "set"
                     /\ restartCount = 0

\* C12: restartCount stays within 0..10, and the restart decision that finds
\* restartCount at 10 within the 5-minute window gives up: it changes nothing,
\* does not sleep and does not call Start().
C12_RestartLimit ==
    [][/\ restartCount' \in 0..MaxRestarts
       /\ \A s \in Slots :
            (wpc[s] = "car" /\ wpc'[s] # "car" /\ restartCount = MaxRestarts)
                => \/ /\ wpc'[s] = "giveup"
                      /\ UNCHANGED <<supervisorVars, protocolVars, disk,
                                     callerVars>>
                   \/ /\ wpc'[s] = "sleep"
                      /\ welapsed'[s] > RestartWindow
                      /\ restartCount' = 1
       /\ \A s \in Slots :
            (wpc[s] = "giveup" /\ wpc'[s] # "giveup")
                => wpc'[s] = "free" /\ UNCHANGED <<running, starts, restartCount>>]_vars

C12_Witness ==
    \E s \in Slots : wpc[s] = "giveup" /\ restartCount = MaxRestarts /\ ~running

(***************************************************************************)
(* Properties of the log broadcaster.                                      *)
(***************************************************************************)
\* the last n elements of a sequence
LastOf(seq, n) == SubSeq(seq, Len(seq) - n + 1, Len(seq))

\* C16: after k Broadcast calls with non-empty lines on a broadcaster of
\* capacity N, GetRecentLogs() is the last min(k, N) lines in the order of
\* their broadcast.
C16_RecentLogsAreLastLines ==
    (\A i \in 1..Len(logged) : logged[i] # "")
        => GetRecentLogs = LastOf(logged, Min(Len(logged), bufferSize))

C16_Witness ==
    /\ Len(logged) > bufferSize
    /\ \A i \in 1..Len(logged) : logged[i] # ""
    /\ logged[Len(logged)] # logged[Len(logged) - 1]
    /\ GetRecentLogs = LastOf(logged, bufferSize)

\* a Broadcast step, and the line it was called with
BroadcastStep == Len(logged') = Len(logged) + 1
BroadcastLine == logged'[Len(logged')]

\* C17: a Broadcast call leaves the queue of a subscriber whose channel is
\* full unchanged, appends the line to the queue of every other registered
\* subscriber and to the history, and closes or removes nobody.
C17_BroadcastSkipsFullSubscriber ==
    /\ [](Len(logged) < MaxBroadcasts => ENABLED BroadcastNumbered)
    /\ [][BroadcastStep
             => /\ \A c \in subscribers :
                     chanQueue'[c] = IF Len(chanQueue[c]) = subscriberBufferSize
                                     THEN chanQueue[c]
                                     ELSE Append(chanQueue[c], BroadcastLine)
                /\ buffer'[bufferPos] = BroadcastLine
                /\ GetRecentLogs'[Len(GetRecentLogs')] = BroadcastLine
                /\ UNCHANGED <<subscribers, chanState, logPanic>>]_vars

C17_Witness ==
    /\ logged # <<>>
    /\ \E c \in subscribers :
          /\ Len(chanQueue[c]) = subscriberBufferSize
          /\ chanQueue[c][subscriberBufferSize] # logged[Len(logged)]
    /\ \E d \in subscribers :
          /\ chanQueue[d] # <<>>
          /\ chanQueue[d][Len(chanQueue[d])] = logged[Len(logged)]

\* C18: no call of Close() panics, however many times Close() is called.
C18_CloseIsIdempotent == logPanic # "Close"

(***************************************************************************)
(* The one-time initialization of the tunnel library.                      *)
(***************************************************************************)
\* C19: tunnel.Init is entered at most once over any sequence of Start()
\* calls, restarts included; once the Once has run, initTunnel is skipped, and
\* a Start() whose initialization panicked returns nil with the worker
\* spawned, as one whose initialization succeeded.
C19_InitAtMostOnce ==
    [][/\ initCalls' \in {initCalls, initCalls + 1}
       /\ initCalls' <= 1
       /\ initOnceDone => initCalls' = initCalls
       /\ starts' = starts + 1 => initOnceDone' /\ initCalls' = 1
       /\ (StartReturns /\ ret'[2] = "nil")
             => /\ ret'[4] \in (IF initOnceDone THEN {"skipped"}
                                 ELSE {"ok", "recovered"})
                /\ running' /\ starts' = starts + 1
       /\ StartReturns => ret'[2] \in {"nil", "already running", "token is required"}]_vars

C19_Witness ==
    /\ initCalls = 1
    /\ starts >= 3
    /\ ret[1] = "Start" /\ ret[2] = "nil" /\ ret[4] = "skipped"

(***************************************************************************)
(* Properties of the protocol selector.                                    *)
(***************************************************************************)
\* the steps of worker s that run selectProtocol, recordProtocolFailure and
\* recordProtocolSuccess
SelectStep(s) == wpc[s] \in {"begin", "select"} /\ wpc'[s] = "tunnel"
FailureStep(s) == wpc[s] = "recfail" /\ wpc'[s] # "recfail"
SuccessStep(s) == wpc[s] = "success" /\ wpc'[s] # "success"

\* the protocol automatic mode falls back to
OtherProtocol(p) == IF p = "quic" THEN "http2" ELSE "quic"

C14_SuccessResetsEveryCounter ==
    [][\A s \in Slots :
          SuccessStep(s) => /\ \A p \in Protocols : protocolFailures'[p] = 0
                            /\ restartCount' = 0]_vars

C14_Witness ==
    /\ \E s \in Slots : wpc[s] = "success"
    /\ currentProtocol = "http2"
    /\ protocolFailures["quic"] > 0
    /\ restartCount > 0

(***************************************************************************)
(* The exit of a worker whose context was cancelled.                       *)
(***************************************************************************)
\* the worker s is in the deferred exit handler after the cleanup began
InExitHandler(s) == wpc[s] \in {"cleanup", "remove", "setidle", "exitcheck"}

\* C20: a worker whose tunnel call returns (nil or an error) with its context
\* cancelled goes straight to the deferred handler, and with that step and
\* every later step of its own it leaves lastError, the protocol counters,
\* restartCount and lastRestart as they are, spawns nothing and never enters
\* checkAutoRestart.
C20_CancelledExitIsNormalStop ==
    [][\A s \in Slots :
          /\ (wpc[s] = "tunnel" /\ wpc'[s] # "tunnel" /\ ctxDone[s]
                /\ werr'[s].kind # "panic")
                => /\ wpc'[s] = "cleanup"
                   /\ UNCHANGED <<lastError, restartCount, lastRestart,
                                  protocolVars, starts>>
          /\ (InExitHandler(s) /\ ctxDone[s] /\ wpc'[s] # wpc[s])
                => /\ wpc'[s] \in {"remove", "setidle", "exitcheck", "free"}
                   /\ UNCHANGED <<lastError, restartCount, lastRestart,
                                  protocolVars, starts>>]_vars

C20_Witness ==
    \E s \in Slots :
        /\ wpc[s] = "exitcheck"
        /\ ctxDone[s]
        /\ werr[s].kind = "error"
        /\ lastError = NoError
        /\ restartCount = 0

(***************************************************************************)
(* The temporary config file.                                              *)
(***************************************************************************)
\* C15: the temporary config file of a run with a custom tag is on disk
\* while the run's tunnel call executes, and once every run has ended and no
\* Stop() is in progress no temporary config file is left on disk and the
\* recorded path is empty.
C15_TempConfigLifecycle ==
    /\ \A s \in Slots :
          (wpc[s] = "tunnel" /\ ~ctxDone[s] /\ wfile[s] # 0) => wfile[s] \in disk
    /\ ((\A s \in Slots : wpc[s] = "free") /\ (\A c \in Callers : cpc[c] = "idle"))
          => disk = {} /\ configFile = 0

(***************************************************************************)
(* A panic inside the worker body.                                         *)
(***************************************************************************)
\* the tunnel call of worker s ended with a panic
Panicked(s) == werr[s].kind = "panic"

\* C21: a panic of the worker body is caught by the deferred handler of the
\* worker: the handler records it as lastError, when it has cleaned up the
\* temporary config file of the run is off the disk (or in the hands of a
\* Stop() that is removing it), it sets running to false, and with the context
\* not cancelled it goes on to the restart decision.
C21_PanicIsContained ==
    [][\A s \in Slots :
          /\ (wpc[s] = "tunnel" /\ Panicked(s)') => wpc'[s] = "recover"
          /\ (wpc[s] = "recover" /\ wpc'[s] # "recover")
                => lastError' = werr[s] /\ wpc'[s] = "cleanup"
          /\ (Panicked(s) /\ wpc[s] = "setidle" /\ wpc'[s] # "setidle")
                => /\ ~running'
                   /\ wfile[s] \in disk => \E c \in Callers : stopFile[c] = wfile[s]
          /\ (Panicked(s) /\ wpc[s] = "exitcheck" /\ wpc'[s] # "exitcheck")
                => wpc'[s] \in (IF ctxDone[s] THEN {"free"} ELSE {"car", "free"})]_vars

(***************************************************************************)
(* Properties of Runner.mu.                                                *)
(***************************************************************************)
\* goroutine g waits at a Lock()
AtLock(g) == lpc[g] \in LockSites

\* C22: no goroutine holds the mutex while it is inside the tunnel call,
\* inside the backoff sleep or inside the wait of Stop(), and a Status() or
\* Stop() call that waits at a Lock() gets the mutex.
C22_NoBlockingUnderMutex ==
    /\ [](\A g \in Goroutines : lpc[g] \in BlockingSites => mu # g)
    /\ \A g \in {StatusCaller, StopCaller} : AtLock(g) ~> (mu = g)

C22_Witness ==
    /\ AtLock(StatusCaller)
    /\ lpc[StopCaller] = "wait"
    /\ \E s \in MutexSlots : lpc[Worker(s)] \in {"sleep", "tunnel"}
    /\ mu = StartCaller

\* C23: every call of Stop() returns, also while a worker waits for the mutex
\* to record its exit and while a worker never leaves the tunnel call; Stop
\* does not hold the mutex while it waits for the worker.
C23_StopTerminates ==
    /\ [](lpc[StopCaller] = "wait" => mu # StopCaller)
    /\ (lpc[StopCaller] # "idle") ~> (lpc[StopCaller] = "idle")

C23_Witness ==
    /\ lpc[StopCaller] = "wait"
    /\ \E s \in MutexSlots : lpc[Worker(s)] = "L386" /\ ctxDone[s]
    /\ mu = StatusCaller

(***************************************************************************)
(* An explicit protocol.                                                   *)
(***************************************************************************)
\* C24: with an explicit protocol configured, every run passes that protocol
\* to the tunnel call and makes it the active protocol, whatever the failure
\* counters are, and no fallback happens: selectProtocol leaves the failure
\* counters and the switch counter as they are, and the switch counter stays 0.
C24_ExplicitProtocolVerbatim ==
    [][/\ \A s \in Slots :
             SelectStep(s)
                => /\ wproto'[s] = ExplicitProtocol
                   /\ currentProtocol' = ExplicitProtocol
                   /\ UNCHANGED <<protocolFailures, protocolSwitchCount>>
       /\ protocolSwitchCount' = 0]_vars

C24_Witness ==
    \E s \in Slots :
        /\ wpc[s] = "tunnel"
        /\ wproto[s] = ExplicitProtocol
        /\ currentProtocol = ExplicitProtocol
        /\ protocolFailures[ExplicitProtocol] >= maxFailuresBeforeSwitch

(***************************************************************************)
(* The failure counters.                                                   *)
(***************************************************************************)
\* the protocol a failure is counted for, lines 323-325
CountedProtocol ==
    IF currentProtocol = "" \/ currentProtocol = "auto"
    THEN "quic" ELSE currentProtocol

\* C25: a worker exit with a protocol-related error (a message that names
\* QUIC) adds exactly 1 to the failure counter of the
\* active protocol and leaves the other counters alone; a worker exit with
\* an authentication error leaves every counter alone; and no other step
\* raises a counter.
C25_FailureCountedForActiveProtocol ==
    [][/\ \A s \in Slots :
             FailureStep(s)
                => protocolFailures' =
                      IF werr[s].msg = <<"authentication", "failed">>
                      THEN protocolFailures
                      ELSE [protocolFailures EXCEPT ![CountedProtocol] = @ + 1]
       /\ (\E p \in Protocols : protocolFailures'[p] > protocolFailures[p])
             => \E s \in Slots : FailureStep(s)]_vars

C25_Witness ==
    /\ \E s \in Slots :
          wpc[s] = "cleanup" /\ werr[s] = Err(<<"authentication", "failed">>)
    /\ lastError = Err(<<"authentication", "failed">>)
    /\ protocolFailures["http2"] = 1
    /\ protocolFailures["quic"] = 1

(***************************************************************************)
(* The error classifier.                                                   *)
(***************************************************************************)
\* the lower-cased message of e contains one of the patterns
MatchesAny(e, patterns) ==
    /\ e.kind # "nil"
    /\ \E p \in patterns : Contains(ToLower(e.msg), p)

\* C26: an error whose message contains, in any case, one of the
\* non-retryable patterns is classified non-retryable, whatever else the
\* message contains.
C26_NonRetryablePatternWins ==
    (callResult # <<>> /\ MatchesAny(callErr, nonRetryablePatterns))
        => callResult = <<FALSE>>

InTunnel == {s \in Slots : wpc[s] = "tunnel"}

\* C29: when no Stop() call times out, at most one worker executes the tunnel
\* library call at any instant.
C29_OneTunnelCallWithoutTimeout == Cardinality(InTunnel) <= 1

(***************************************************************************)
(* lastError.                                                              *)
(***************************************************************************)
\* a Start() that spawns a worker, from a caller or from checkAutoRestart
StartSucceeds == starts' = starts + 1

\* the worker stores the error of its tunnel call, lines 517-519
StoreStep(s) == wpc[s] = "seterr" /\ wpc'[s] # "seterr"

\* C28: every successful Start() sets lastError to nil; Start() returns nil,
\* "already running" or "token is required" and never the error of a tunnel
\* call; the worker stores the error of its tunnel call in lastError, and a
\* stored error stays in lastError until the next successful Start().
C28_LastErrorUntilNextStart ==
    [][/\ StartSucceeds => lastError' = NoError
       /\ ret'[1] = "Start"
             => ret'[2] \in {"nil", "already running", "token is required"}
       /\ \A s \in Slots : StoreStep(s) => lastError' = werr[s]
       /\ (lastError.kind = "error" /\ lastError' # lastError)
             => StartSucceeds]_vars

(***************************************************************************)
(* Whose temporary config file it is.                                      *)
(***************************************************************************)
\* worker s is inside the tunnel call before and after the step, and the step
\* is one of worker t
OtherWorkerStep(s, t) ==
    /\ s # t
    /\ wpc[s] = "tunnel" /\ wpc'[s] = "tunnel"
    /\ wpc'[t] # wpc[t]

\* C30: while a run with a temporary config file executes its tunnel call, no
\* step of the worker of another run (its start, its exit) deletes that file
\* or clears or overwrites the recorded path of that file.
C30_TempConfigOwnedByItsRun ==
    [][\A s, t \in Slots :
          (OtherWorkerStep(s, t) /\ wfile[s] # 0)
             => /\ wfile[s] \in disk => wfile[s] \in disk'
                /\ configFile = wfile[s] => configFile' = wfile[s]]_vars

(***************************************************************************)
(* The deferred exit handler of the worker.                                *)
(***************************************************************************)
\* worker s leaves position p of its code with this step
Leaves(s, p) == wpc[s] = p /\ wpc'[s] # p

\* worker s, its context not cancelled, calls checkAutoRestart (line 392)
RestartDecisionStarts(s) == Leaves(s, "exitcheck") /\ ~ctxDone[s]

\* C31: a worker whose context is not cancelled cleans up the temporary
\* config file, then sets running to false, then calls checkAutoRestart: when
\* checkAutoRestart starts running is false and the temporary config of the
\* exiting run is neither recorded nor on disk; and after a clean exit with
\* AutoRestart enabled checkAutoRestart schedules a restart with delay 5s.
C31_ExitHandlerOrder ==
    [][\A s \in Slots :
          /\ (wpc'[s] = "setidle" /\ wpc[s] # "setidle")
                => wpc[s] \in {"cleanup", "remove"}
          /\ (wpc'[s] = "exitcheck" /\ wpc[s] # "exitcheck")
                => wpc[s] = "setidle" /\ ~running'
          /\ RestartDecisionStarts(s)
                => /\ ~running
                   /\ wfile[s] # 0 => configFile # wfile[s] /\ wfile[s] \notin disk
          /\ (Leaves(s, "car") /\ werr[s].kind = "nil")
                => wpc'[s] = "sleep" /\ wdelay'[s] = 5]_vars

(***************************************************************************)
(* AutoRestart disabled.                                                   *)
(***************************************************************************)
\* C32: with AutoRestart disabled, the exit of a worker (after an error, a
\* clean return or a panic) ends the goroutine: checkAutoRestart changes
\* neither restartCount nor lastRestart, does not sleep and does not call
\* Start(), no worker is spawned by the exit, and a worker is spawned only by
\* a Start() call of a caller.
C32_NoRestartWhenDisabled ==
    [][/\ \A s \in Slots :
             Leaves(s, "exitcheck")
                => /\ wpc'[s] = "free"
                   /\ \A t \in Slots : wpc[t] = "free" => wpc'[t] = "free"
                   /\ UNCHANGED <<restartCount, lastRestart, starts, running,
                                  wdelay>>
       /\ lastRestart' = "zero"
       /\ StartSucceeds => (ret = NoRet /\ ret'[1] = "Start")]_vars

C32_Witness ==
    /\ \A s \in Slots : wpc[s] = "free"
    /\ lastError = PanicError
    /\ ~running
    /\ starts = MixStarts
    /\ protocolFailures["quic"] > 0
    /\ restartCount = 0

(***************************************************************************)
(* The subscriber channels of the broadcaster.                             *)
(***************************************************************************)
\* C33: a subscriber channel is closed once: the step that closes it removes
\* it from the subscriber map, and no later Unsubscribe, sweep or Close()
\* closes it again (close of a closed channel panics).
C33_ChannelClosedOnce ==
    [][/\ \A c \in ChanIds :
             (chanState[c] # "closed" /\ chanState'[c] = "closed")
                => c \in subscribers /\ c \notin subscribers'
       /\ logPanic' # "Unsubscribe"]_vars

\* a tick of the sweep that evicts somebody: the subscriber map shrinks, and
\* neither Unsubscribe nor Close() made the step
SweepStep ==
    /\ subscribers' # subscribers
    /\ subscribers' \subseteq subscribers
    /\ unsubscribed' = unsubscribed
    /\ closePc' = closePc

\* the subscribers whose last-active time is more than subscriberTimeout ago
Inactive == {c \in subscribers : ~lastActive[c]}

HasRoom(c) == Len(chanQueue[c]) < subscriberBufferSize

\* C35: the last-active time of a subscriber is set at Subscribe, refreshed by
\* a Broadcast whose send to it succeeded and refreshed by MarkActive on its
\* registered handle, and by nothing else: a Broadcast that finds its channel
\* full leaves it as it is, and MarkActive on a handle that is not registered
\* changes nothing.
C35_LastActiveRefresh ==
    [][\A c \in ChanIds :
          /\ (c \notin subscribers /\ c \in subscribers') => lastActive'[c]
          /\ (c \in subscribers /\ logged' # logged)
                => lastActive'[c] = IF HasRoom(c) THEN TRUE ELSE lastActive[c]
          /\ (c \notin subscribers /\ c \notin subscribers')
                => lastActive'[c] = lastActive[c]
          /\ (c \in subscribers /\ ~lastActive[c] /\ lastActive'[c])
                => \/ /\ Len(logged') = Len(logged) + 1
                      /\ chanQueue'[c] = chanQueue[c] \o LastOf(logged', 1)
                   \/ UNCHANGED <<subscribers, chanState, chanQueue, logged,
                                  unsubscribed, logPanic, closePc, sweeper>>]_vars

C35_Witness ==
    /\ subscribers = {1, 2}
    /\ ~HasRoom(1) /\ ~lastActive[1]
    /\ Len(logged) > subscriberBufferSize
    /\ chanQueue[2] = LastOf(logged, 1) /\ lastActive[2]

(***************************************************************************)
(* Stop() while a restart is pending.                                      *)
(***************************************************************************)
\* some worker goroutine is in the backoff sleep of checkAutoRestart
RestartPending == \E s \in Slots : wpc[s] = "sleep"

\* a Stop() call that returns in its first step
StopReturnsAtOnce == ret = NoRet /\ ret'[1] = "Stop" /\ cpc' = cpc

\* C36: a Stop() issued while a restart is pending and running is false
\* returns nil and changes nothing: it cancels no context and the goroutine
\* stays in its backoff sleep; the sleep ends only with the goroutine's call
\* of Start(), which, running being false, either spawns a worker and sets
\* running (a token is configured) or changes nothing (no token).
C36_StopKeepsPendingRestart ==
    [][/\ (StopReturnsAtOnce /\ RestartPending)
             => /\ ~running
                /\ ret' = <<"Stop", "nil", "">>
                /\ UNCHANGED restOfState
       /\ (RestartPending /\ ~running)
             => \A c \in Callers : cpc[c] = "idle" => cpc'[c] = "idle"
       /\ \A s \in Slots :
             Leaves(s, "sleep")
                => /\ wpc'[s] = "wgdone"
                   /\ ret' = ret
                   /\ ~running
                         => \/ /\ running' /\ StartSucceeds
                               /\ \E t \in Slots : wpc[t] = "free" /\ wpc'[t] = "begin"
                            \/ /\ UNCHANGED <<running, starts, lastError, wg>>
                               /\ \A t \in Slots : wpc[t] = "free" => wpc'[t] = "free"]_vars

C36_Witness ==
    /\ ret = <<"Stop", "nil", "">>
    /\ RestartPending
    /\ ~running
    /\ \A c \in Callers : cpc[c] = "idle"

(***************************************************************************)
(* Stop() against the exit handler of the worker it cancels.               *)
(***************************************************************************)
\* the positions of a worker that has set running to false (line 387) and
\* checks or has checked its context (line 390)
PastIdle == {"exitcheck", "car", "sleep", "giveup", "wgdone"}

\* Stop() call c, finding running = true, cancels the context of worker s
StopCancels(c, s) ==
    /\ cpc[c] = "idle" /\ cpc'[c] # "idle"
    /\ cancelOwner = s /\ wpc[s] # "free"

\* C37: the worker whose context a Stop() that found running = true cancels
\* has not yet set running to false, so it checks its context after the
\* cancellation; its context stays cancelled until it ends, and its exit
\* handler returns without calling checkAutoRestart.
C37_CancelledWorkerNeverRestarts ==
    [][\A s \in Slots :
          /\ (\E c \in Callers : StopCancels(c, s))
                => running /\ ctxDone'[s] /\ wpc[s] \notin PastIdle
          /\ (ctxDone[s] /\ wpc[s] # "free")
                => ctxDone'[s] \/ wpc'[s] = "free"
          /\ (ctxDone[s] /\ Leaves(s, "exitcheck"))
                => /\ wpc'[s] = "free"
                   /\ UNCHANGED <<restartCount, lastRestart, starts, running>>]_vars

C37_Witness ==
    \E s \in Slots :
       /\ wpc[s] = "exitcheck" /\ ctxDone[s]
       /\ werr[s].kind = "error" /\ lastError = werr[s]
       /\ \E c \in Callers : stopTarget[c] = s /\ cpc[c] # "idle"

\* C38: every channel registered in the subscriber map is open, and a
\* Broadcast sends only on open channels, however Broadcast interleaves
\* with Subscribe, Unsubscribe, the sweep and Close().
C38_RegisteredChannelsAreOpen ==
    /\ [](\A c \in subscribers : chanState[c] = "open")
    /\ [][logged' # logged
            => \A c \in ChanIds :
                  chanQueue'[c] # chanQueue[c] => chanState[c] = "open"]_vars

C38_Witness ==
    /\ subscribers = {2}
    /\ chanState = <<"closed", "open">>
    /\ chanQueue[1] = <<>>
    /\ Len(logged) > 0 /\ chanQueue[2] = LastOf(logged, 1)

\* the place of a line among the lines broadcast so far (the lines are told
\* apart by their number)
PlaceOf(line) == CHOOSE i \in 1..Len(logged) : logged[i] = line

\* C39: what a subscriber can read from its channel is, in order and without
\* duplicates, a subsequence of the lines broadcast after it subscribed: its
\* channel starts empty, a Broadcast appends its line at the tail when the
\* channel has room and only then leaves the channel as it is, the reader
\* takes the head, and nothing else changes the channel.
C39_SubscriberReadsInOrder ==
    /\ [](\A c \in ChanIds :
             /\ \A i \in 1..Len(chanQueue[c]) :
                   \E k \in 1..Len(logged) : logged[k] = chanQueue[c][i]
             /\ \A i, j \in 1..Len(chanQueue[c]) :
                   i < j => PlaceOf(chanQueue[c][i]) < PlaceOf(chanQueue[c][j]))
    /\ [][\A c \in ChanIds :
             /\ (c \notin subscribers /\ c \in subscribers') => chanQueue'[c] = <<>>
             /\ (logged' # logged /\ c \in subscribers /\ HasRoom(c))
                   => chanQueue'[c] = chanQueue[c] \o LastOf(logged', 1)
             /\ chanQueue'[c] # chanQueue[c]
                   => \/ /\ logged' # logged /\ c \in subscribers /\ HasRoom(c)
                         /\ chanQueue'[c] = chanQueue[c] \o LastOf(logged', 1)
                      \/ /\ logged' = logged
                         /\ chanQueue'[c] = Tail(chanQueue[c])]_vars

C39_Witness == chanQueue = << <<"2", "4">>, <<"4">> >>

====
